---- MODULE Spec2Model ----
(***************************************************************************)
(* World-session state machine of the client (game::GameHandler) together  *)
(* with the transport it drives (network::WorldSocket).                     *)
(*                                                                         *)
(* The handler is single threaded: every API call runs to completion       *)
(* before the next one starts.  pc records the position inside a call, so  *)
(* that the points between two observable effects of one call (a setState, *)
(* a send, a callback) are states of the model; while pc is not "idle"     *)
(* only the running call can take a step.                                  *)
(***************************************************************************)
EXTENDS Integers, Sequences, FiniteSets, TLC

(***************************************************************************)
(* Bounds of the model                                                     *)
(***************************************************************************)
MaxConnects == 2
MaxPings == 2

(***************************************************************************)
(* WorldState, in declaration order                                        *)
(***************************************************************************)
WorldState ==
    << "DISCONNECTED", "CONNECTING", "CONNECTED", "CHALLENGE_RECEIVED",
       "AUTH_SENT", "AUTHENTICATED", "READY", "CHAR_LIST_REQUESTED",
       "CHAR_LIST_RECEIVED", "ENTERING_WORLD", "IN_WORLD", "FAILED" >>

Phases == { WorldState[i] : i \in 1..Len(WorldState) }

PhaseIndex(s) == CHOOSE i \in 1..Len(WorldState) : WorldState[i] = s

(***************************************************************************)
(* Program constants                                                       *)
(***************************************************************************)
SessionKeySize == 40
PingInterval == 30
DefaultBuild == 12340
MaxChatHistory == 100

(***************************************************************************)
(* Inputs                                                                  *)
(***************************************************************************)
NoKey == [len |-> 0, tag |-> 0]

\* arguments of connect(): the session key (its length and a tag that
\* stands for its content), the account name and the build
ConnectArgs ==
    { [key |-> [len |-> 40, tag |-> 1], account |-> "alice", build |-> 12340],
      [key |-> [len |-> 40, tag |-> 2], account |-> "bob",   build |-> 12341],
      [key |-> [len |-> 39, tag |-> 2], account |-> "bob",   build |-> 12341],
      [key |-> [len |-> 0,  tag |-> 0], account |-> "bob",   build |-> 12341] }

ClientSeeds == {1}
DeltaTimes == {15, 30}
PartialBytes == {0, 1}
Guids == {1, 2}

VARIABLES
    state,              \* WorldState state
    socket,             \* std::unique_ptr<WorldSocket> socket
    sessionKey,         \* stored session key
    accountName,        \* stored account name
    build,              \* stored build
    clientSeed,         \* seed generated by connect()
    serverSeed,         \* seed of SMSG_AUTH_CHALLENGE
    characters,         \* guids of the roster of SMSG_CHAR_ENUM
    movementInfo,       \* position and flags of the player
    pingSequence,       \* heartbeat sequence number
    timeSinceLastPing,  \* time accumulated while IN_WORLD
    onSuccess,          \* TRUE iff a success callback is registered
    onFailure,          \* TRUE iff a failure callback is registered
    entities,           \* entityManager: guid -> entity
    targetGuid,         \* selected target, 0 for none
    tabCycleList,       \* guids of the tab-target cycle
    tabCycleIndex,      \* position in the cycle, -1 before its start
    tabCycleStale,      \* TRUE iff the cycle has to be rebuilt
    chatHistory,        \* recent chat messages
    pc,                 \* position inside the running call
    sent,               \* packets passed to socket->send on the current socket
    failCalls,          \* number of invocations of the failure callback
    failReason,         \* argument of its last invocation
    successCalls,       \* number of invocations of the success callback
    connects,           \* number of connect() calls so far
    lastOp,             \* the call (and packet) of the last step
    fed,                \* packets the handshake handlers took on the current socket
    calc                \* the computation in hand of the codecs: input and results

vars == << state, socket, sessionKey, accountName, build, clientSeed,
           serverSeed, characters, movementInfo, pingSequence, timeSinceLastPing,
           onSuccess, onFailure, entities, targetGuid, tabCycleList,
           tabCycleIndex, tabCycleStale, chatHistory, pc, sent, failCalls,
           failReason, successCalls, connects, lastOp, fed, calc >>

sessionVars == << state, socket, sessionKey, accountName, build, clientSeed,
                  serverSeed, characters, movementInfo, pingSequence,
                  timeSinceLastPing, onSuccess, onFailure, entities,
                  targetGuid, tabCycleList, tabCycleIndex, tabCycleStale,
                  chatHistory, pc, sent, failCalls, failReason, successCalls,
                  connects, lastOp, fed >>

credVars == << sessionKey, accountName, build, clientSeed >>
cbVars == << onSuccess, onFailure >>
pingVars == << pingSequence, timeSinceLastPing >>
failVars == << failCalls, failReason >>
dataVars == << serverSeed, characters, movementInfo >>
targetVars == << targetGuid, tabCycleList, tabCycleIndex, tabCycleStale >>
worldVars == << entities, targetVars, chatHistory >>

(***************************************************************************)
(* The transport.  A WorldSocket is either absent or an object with a      *)
(* connection flag, the header cipher (absent until initEncryption) and    *)
(* the number of buffered bytes of an incomplete frame.                    *)
(***************************************************************************)
NoSocket == [exists |-> FALSE]

NewSocket ==
    [exists |-> TRUE, connected |-> FALSE, encrypted |-> FALSE,
     cipherKey |-> NoKey, rx |-> 0]

\* socket->update() polls the transport: a connection that the peer closed
\* is dropped together with the receive buffer
SocketPoll(sock, lost) ==
    IF sock.connected /\ lost
      THEN [sock EXCEPT !.connected = FALSE, !.rx = 0]
      ELSE sock

\* what socket->update() leaves in the receive buffer: the bytes of an
\* incomplete frame
SocketBuffer(sock, partial) ==
    IF sock.connected THEN [sock EXCEPT !.rx = partial] ELSE sock

\* socket->initEncryption(key)
SocketInitEncryption(sock, key) ==
    [sock EXCEPT !.encrypted = TRUE, !.cipherKey = key]

NoMovement == [pos |-> 0, flags |-> 0, time |-> 0]

NoPacket == [op |-> "none"]

NoCalc == [fn |-> "none"]

Op(name) == [name |-> name, pkt |-> NoPacket]

OpPkt(name, p) == [name |-> name, pkt |-> p]

\* the session as the constructor and the field initialisers leave it
Constructed ==
    /\ state = "DISCONNECTED"
    /\ socket = NoSocket
    /\ sessionKey = NoKey
    /\ accountName = ""
    /\ build = DefaultBuild
    /\ clientSeed = 0
    /\ serverSeed = 0
    /\ characters = {}
    /\ movementInfo = NoMovement
    /\ pingSequence = 0
    /\ timeSinceLastPing = 0
    /\ onSuccess = FALSE
    /\ onFailure = FALSE
    /\ entities = << >>
    /\ targetGuid = 0
    /\ tabCycleList = << >>
    /\ tabCycleIndex = -1
    /\ tabCycleStale = TRUE
    /\ chatHistory = << >>
    /\ pc = "idle"
    /\ sent = << >>
    /\ failCalls = 0
    /\ failReason = ""
    /\ successCalls = 0
    /\ connects = 0
    /\ lastOp = Op("constructor")
    /\ fed = << >>

Init == Constructed /\ calc = NoCalc

(***************************************************************************)
(* setState / fail                                                         *)
(***************************************************************************)
\* a variant that sets the state and forgets the callback
failSilent(reason) ==
    /\ state' = "FAILED"
    /\ UNCHANGED failVars

\* fail(reason): setState(FAILED), then the failure callback if registered
fail(reason) ==
    /\ state' = "FAILED"
    /\ IF onFailure
         THEN failCalls' = failCalls + 1 /\ failReason' = reason
         ELSE UNCHANGED failVars

(***************************************************************************)
(* setOnSuccess / setOnFailure                                             *)
(***************************************************************************)
\* the client registers its callbacks before its first connect()
setOnSuccess(cb) ==
    /\ pc = "idle"
    /\ UNCHANGED calc
    /\ connects = 0
    /\ onSuccess' = cb
    /\ lastOp' = Op("setOnSuccess")
    /\ UNCHANGED << state, socket, credVars, dataVars, pingVars, onFailure,
                    worldVars,
                    pc, sent, failVars, successCalls, connects, fed >>

setOnFailure(cb) ==
    /\ pc = "idle"
    /\ UNCHANGED calc
    /\ connects = 0
    /\ onFailure' = cb
    /\ lastOp' = Op("setOnFailure")
    /\ UNCHANGED << state, socket, credVars, dataVars, pingVars, onSuccess,
                    worldVars,
                    pc, sent, failVars, successCalls, connects, fed >>

(***************************************************************************)
(* connect                                                                 *)
(***************************************************************************)
\* a connect() that takes a session key of any size
connectUnchecked(a, seed) ==
    /\ pc = "idle"
    /\ UNCHANGED calc
    /\ connects < MaxConnects
    /\ connects' = connects + 1
    /\ lastOp' = Op("connect")
    /\ sessionKey' = a.key
    /\ accountName' = a.account
    /\ build' = a.build
    /\ clientSeed' = seed
    /\ socket' = NewSocket
    /\ sent' = << >>
    /\ fed' = << >>
    /\ state' = "CONNECTING"
    /\ pc' = "connect"
    /\ UNCHANGED failVars
    /\ UNCHANGED << dataVars, pingVars, cbVars, worldVars, successCalls >>

\* connect(), up to the call of socket->connect: a key of the wrong size
\* fails at once; otherwise the arguments are stored, a seed is drawn, a
\* fresh socket replaces the old one and the state becomes CONNECTING
connect(a, seed) ==
    /\ pc = "idle"
    /\ UNCHANGED calc
    /\ connects < MaxConnects
    /\ connects' = connects + 1
    /\ lastOp' = Op("connect")
    /\ IF a.key.len # SessionKeySize
         THEN /\ fail("Invalid session key")
              /\ UNCHANGED << socket, credVars, pc, sent, fed >>
         ELSE /\ sessionKey' = a.key
              /\ accountName' = a.account
              /\ build' = a.build
              /\ clientSeed' = seed
              /\ socket' = NewSocket
              /\ sent' = << >>
              /\ fed' = << >>
              /\ state' = "CONNECTING"
              /\ pc' = "connect"
              /\ UNCHANGED failVars
    /\ UNCHANGED << dataVars, pingVars, cbVars, worldVars, successCalls >>

\* the rest of connect(): socket->connect fails (fail "Connection failed")
\* or succeeds (CONNECTED)
connectResult(ok) ==
    /\ pc = "connect"
    /\ UNCHANGED calc
    /\ pc' = "idle"
    /\ lastOp' = Op("connect")
    /\ IF ok
         THEN /\ socket' = [socket EXCEPT !.connected = TRUE]
              /\ state' = "CONNECTED"
              /\ UNCHANGED failVars
         ELSE /\ fail("Connection failed")
              /\ UNCHANGED socket
    /\ UNCHANGED << credVars, dataVars, pingVars, cbVars, worldVars, sent,
                    successCalls,
                    connects, fed >>

(***************************************************************************)
(* disconnect                                                              *)
(***************************************************************************)
\* a variant that closes the socket and keeps the object
disconnectKeepsSocket ==
    /\ pc = "idle"
    /\ UNCHANGED calc
    /\ socket' = IF socket.exists
                   THEN [socket EXCEPT !.connected = FALSE, !.rx = 0]
                   ELSE socket
    /\ state' = "DISCONNECTED"
    /\ lastOp' = Op("disconnect")
    /\ UNCHANGED << credVars, dataVars, pingVars, cbVars, worldVars, pc,
                    sent, failVars, successCalls, connects, fed >>

disconnect ==
    /\ pc = "idle"
    /\ UNCHANGED calc
    /\ socket' = NoSocket
    /\ state' = "DISCONNECTED"
    /\ sent' = << >>
    /\ fed' = << >>
    /\ lastOp' = Op("disconnect")
    /\ UNCHANGED << credVars, dataVars, pingVars, cbVars, worldVars, pc,
                    failVars,
                    successCalls, connects >>

(***************************************************************************)
(* Inbound packets.  A packet is its opcode, the size of its payload and   *)
(* the decoded content the handlers look at: valid is the result of the    *)
(* isValid() of the parsed data, result the AuthResult, n the number the   *)
(* message carries (the server seed of a challenge, the size of a roster,  *)
(* the position of a world entry, the sequence number of a pong).          *)
(***************************************************************************)
Pkt(op, size, valid, result, n) ==
    [op |-> op, size |-> size, valid |-> valid, result |-> result, n |-> n]

ChallengePackets ==
    { Pkt("SMSG_AUTH_CHALLENGE", 0, FALSE, "", 0),
      Pkt("SMSG_AUTH_CHALLENGE", 4, FALSE, "", 0),
      Pkt("SMSG_AUTH_CHALLENGE", 8, FALSE, "", 0),
      Pkt("SMSG_AUTH_CHALLENGE", 8, TRUE, "", 7) }

ResponsePackets ==
    { Pkt("SMSG_AUTH_RESPONSE", 1, TRUE, "OK", 0),
      Pkt("SMSG_AUTH_RESPONSE", 1, TRUE, "FAILED", 0) }

RosterPackets ==
    { Pkt("SMSG_CHAR_ENUM", 200, TRUE, "", 1) }

VerifyPackets ==
    { Pkt("SMSG_LOGIN_VERIFY_WORLD", 12, FALSE, "", 0),
      Pkt("SMSG_LOGIN_VERIFY_WORLD", 20, FALSE, "", 0),
      Pkt("SMSG_LOGIN_VERIFY_WORLD", 20, TRUE, "", 5) }

InfoPackets ==
    { Pkt("SMSG_ACCOUNT_DATA_TIMES", 37, TRUE, "", 0),
      Pkt("SMSG_MOTD", 2, FALSE, "", 0),
      Pkt("SMSG_MOTD", 4, TRUE, "", 0),
      Pkt("SMSG_PONG", 2, FALSE, "", 0),
      Pkt("SMSG_PONG", 4, TRUE, "", 1) }

UnknownPackets == { Pkt("UNKNOWN", 4, TRUE, "", 0) }

HandshakePackets ==
    ChallengePackets \cup ResponsePackets \cup RosterPackets
        \cup VerifyPackets \cup InfoPackets \cup UnknownPackets

\* the parsers of world_packets.cpp: each fails on a payload that is too
\* small for the fixed part of its message
AuthChallengeParser(p) == p.size >= 8
AuthResponseParser(p) == p.size >= 1
CharEnumParser(p) == TRUE
LoginVerifyWorldParser(p) == p.size >= 20
MotdParser(p) == p.size >= 4
PongParser(p) == p.size >= 4

getAuthResultString(r) ==
    CASE r = "OK" -> "OK - Authentication successful"
      [] r = "FAILED" -> "FAILED - Authentication failed"
      [] OTHER -> "UNKNOWN - Unknown result code"

\* AuthChallengeData::isValid, AuthResponseData::isSuccess and
\* LoginVerifyWorldData::isValid
ChallengeIsValid(p) == p.valid
ResponseIsSuccess(p) == p.result = "OK"
VerifyIsValid(p) == p.valid

(***************************************************************************)
(* The entity table (EntityManager) and the entities                       *)
(***************************************************************************)
NoFields == << >>

hasEntity(ents, guid) == guid \in DOMAIN ents

\* addEntity(guid, entity): the entity takes the place of an older one
addEntity(ents, guid, e) ==
    [g \in DOMAIN ents \cup {guid} |-> IF g = guid THEN e ELSE ents[g]]

removeEntity(ents, guid) == [g \in DOMAIN ents \ {guid} |-> ents[g]]

\* Entity::setField for every field of a block
setFields(fields, new) ==
    [k \in DOMAIN fields \cup DOMAIN new |->
        IF k \in DOMAIN new THEN new[k] ELSE fields[k]]

\* the entity a CREATE_OBJECT block makes: Player, Unit and GameObject carry
\* their type, any other type is set on a plain Entity
NewEntity(b) ==
    [type |-> b.objectType,
     pos |-> IF b.hasMovement THEN b.pos ELSE 0,
     fields |-> setFields(NoFields, b.fields)]

\* a variant whose CREATE_OBJECT case sets the fields and the position on
\* the entity the table already holds for the guid
ApplyBlockCreateMerges(ents, b) ==
    CASE b.updateType \in {"CREATE_OBJECT", "CREATE_OBJECT2"} ->
           IF hasEntity(ents, b.guid)
             THEN [ents EXCEPT ![b.guid].fields = setFields(@, b.fields),
                               ![b.guid].pos = b.pos]
             ELSE addEntity(ents, b.guid, NewEntity(b))
      [] b.updateType = "VALUES" ->
           IF hasEntity(ents, b.guid)
             THEN [ents EXCEPT ![b.guid].fields = setFields(@, b.fields)]
             ELSE ents
      [] b.updateType = "MOVEMENT" ->
           IF hasEntity(ents, b.guid)
             THEN [ents EXCEPT ![b.guid].pos = b.pos]
             ELSE ents
      [] OTHER -> ents

\* a variant whose VALUES case takes the block's fields as the whole field
\* map and makes an entity for a guid the table does not hold
ApplyBlockValuesReplace(ents, b) ==
    CASE b.updateType \in {"CREATE_OBJECT", "CREATE_OBJECT2"} ->
           addEntity(ents, b.guid, NewEntity(b))
      [] b.updateType = "VALUES" ->
           IF hasEntity(ents, b.guid)
             THEN [ents EXCEPT ![b.guid].fields = b.fields]
             ELSE addEntity(ents, b.guid,
                            [type |-> "OBJECT", pos |-> 0,
                             fields |-> b.fields])
      [] b.updateType = "MOVEMENT" ->
           IF hasEntity(ents, b.guid)
             THEN [ents EXCEPT ![b.guid].pos = b.pos]
             ELSE ents
      [] OTHER -> ents

\* one case of the switch over block.updateType
ApplyBlock(ents, b) ==
    CASE b.updateType \in {"CREATE_OBJECT", "CREATE_OBJECT2"} ->
           addEntity(ents, b.guid, NewEntity(b))
      [] b.updateType = "VALUES" ->
           IF hasEntity(ents, b.guid)
             THEN [ents EXCEPT ![b.guid].fields = setFields(@, b.fields)]
             ELSE ents
      [] b.updateType = "MOVEMENT" ->
           IF hasEntity(ents, b.guid)
             THEN [ents EXCEPT ![b.guid].pos = b.pos]
             ELSE ents
      [] OTHER -> ents

RECURSIVE ApplyBlocks(_, _)
ApplyBlocks(ents, blocks) ==
    IF blocks = << >>
      THEN ents
      ELSE ApplyBlocks(ApplyBlock(ents, Head(blocks)), Tail(blocks))

RECURSIVE RemoveOutOfRange(_, _)
RemoveOutOfRange(ents, guids) ==
    IF guids = << >>
      THEN ents
      ELSE RemoveOutOfRange(
             IF hasEntity(ents, Head(guids))
               THEN removeEntity(ents, Head(guids)) ELSE ents,
             Tail(guids))

(***************************************************************************)
(* Packets of the world phase: data is the content of the payload          *)
(***************************************************************************)
WorldPkt(op, size, data) == [op |-> op, size |-> size, data |-> data]

UpdateTypes ==
    { "VALUES", "MOVEMENT", "CREATE_OBJECT", "CREATE_OBJECT2",
      "OUT_OF_RANGE_OBJECTS", "NEAR_OBJECTS" }

\* one block as it lies in the payload; overrun says that the payload ends
\* inside the block
RawBlock(updateType, guid, objectType, pos, fields, overrun) ==
    [updateType |-> updateType, guid |-> guid, objectType |-> objectType,
     pos |-> pos, fields |-> fields, overrun |-> overrun]

\* the payload of SMSG_UPDATE_OBJECT: the block count, the guids of a
\* leading out-of-range list and the blocks that follow
UpdateData(blockCount, outOfRange, blocks) ==
    [blockCount |-> blockCount, outOfRangeGuids |-> outOfRange,
     blocks |-> blocks]

\* a read of the packet that runs past the end of the payload is a decode
\* failure
PacketOverrun(rb) == rb.overrun

\* parseUpdateBlock: an unknown update type fails; a CREATE_OBJECT and a
\* MOVEMENT block carry a movement block
parseUpdateBlock(rb) ==
    IF PacketOverrun(rb) \/ rb.updateType \notin UpdateTypes
      THEN [ok |-> FALSE]
      ELSE [ok |-> TRUE,
            block |-> [updateType |-> rb.updateType, guid |-> rb.guid,
                       objectType |-> rb.objectType,
                       hasMovement |-> rb.updateType \in
                           {"CREATE_OBJECT", "CREATE_OBJECT2", "MOVEMENT"},
                       pos |-> rb.pos, fields |-> rb.fields]]

\* the loop of UpdateObjectParser::parse over blockCount blocks: the first
\* block that fails (or is not there) ends the parse with failure
RECURSIVE ParseBlocks(_, _, _)
ParseBlocks(raw, n, acc) ==
    IF n = 0
      THEN [ok |-> TRUE, blocks |-> acc]
      ELSE IF raw = << >> \/ ~parseUpdateBlock(Head(raw)).ok
        THEN [ok |-> FALSE, blocks |-> acc]
        ELSE ParseBlocks(Tail(raw), n - 1,
                         Append(acc, parseUpdateBlock(Head(raw)).block))

\* UpdateObjectParser::parse: the result and the data it filled in
ParseUpdateObject(d) ==
    [ok |-> ParseBlocks(d.blocks, d.blockCount, << >>).ok,
     outOfRangeGuids |-> d.outOfRangeGuids,
     blocks |-> ParseBlocks(d.blocks, d.blockCount, << >>).blocks]

WorldPackets ==
    { WorldPkt("SMSG_UPDATE_OBJECT", 4, UpdateData(1, << >>, << >>)),
      WorldPkt("SMSG_DESTROY_OBJECT", 9, [guid |-> 1, isDeath |-> FALSE]),
      WorldPkt("SMSG_MESSAGECHAT", 4, [message |-> "hi"]) }

UpdateObjectParser(p) == ParseUpdateObject(p.data).ok
DestroyObjectParser(p) == p.size >= 9
MessageChatParser(p) == p.size >= 15

Packets == HandshakePackets \cup WorldPackets

\* a variant that goes on with what the parser filled in before it failed
handleUpdateObjectApplyPartial(p) ==
    /\ entities' = ApplyBlocks(
          RemoveOutOfRange(entities,
                           ParseUpdateObject(p.data).outOfRangeGuids),
          ParseUpdateObject(p.data).blocks)
    /\ tabCycleStale' = TRUE
    /\ UNCHANGED << targetGuid, tabCycleList, tabCycleIndex, chatHistory >>

\* a variant that walks the blocks first and the out-of-range list last
handleUpdateObjectRemovesLast(p) ==
    IF ~UpdateObjectParser(p)
      THEN UNCHANGED worldVars
      ELSE /\ entities' = RemoveOutOfRange(
                 ApplyBlocks(entities, ParseUpdateObject(p.data).blocks),
                 ParseUpdateObject(p.data).outOfRangeGuids)
           /\ tabCycleStale' = TRUE
           /\ UNCHANGED << targetGuid, tabCycleList, tabCycleIndex,
                           chatHistory >>

handleUpdateObject(p) ==
    IF ~UpdateObjectParser(p)
      THEN UNCHANGED worldVars
      ELSE /\ entities' = ApplyBlocks(
                 RemoveOutOfRange(entities,
                                  ParseUpdateObject(p.data).outOfRangeGuids),
                 ParseUpdateObject(p.data).blocks)
           /\ tabCycleStale' = TRUE
           /\ UNCHANGED << targetGuid, tabCycleList, tabCycleIndex,
                           chatHistory >>

\* a variant that looks the guid up in a way that inserts an empty entry
\* for an unknown guid
handleDestroyObjectInserts(p) ==
    IF ~DestroyObjectParser(p)
      THEN UNCHANGED worldVars
      ELSE /\ entities' = IF hasEntity(entities, p.data.guid)
                            THEN removeEntity(entities, p.data.guid)
                            ELSE addEntity(entities, p.data.guid,
                                           [type |-> "NONE", pos |-> 0,
                                            fields |-> NoFields])
           /\ tabCycleStale' = TRUE
           /\ UNCHANGED << targetGuid, tabCycleList, tabCycleIndex,
                           chatHistory >>

handleDestroyObject(p) ==
    IF ~DestroyObjectParser(p)
      THEN UNCHANGED worldVars
      ELSE /\ entities' = IF hasEntity(entities, p.data.guid)
                            THEN removeEntity(entities, p.data.guid)
                            ELSE entities
           /\ tabCycleStale' = TRUE
           /\ UNCHANGED << targetGuid, tabCycleList, tabCycleIndex,
                           chatHistory >>

\* a variant that never erases
PushChatUnbounded(history, msg) == Append(history, msg)

\* push_back, then the oldest message goes once the history is over its limit
PushChat(history, msg) ==
    IF Len(history) + 1 > MaxChatHistory
      THEN Tail(Append(history, msg))
      ELSE Append(history, msg)

handleMessageChat(p) ==
    IF ~MessageChatParser(p)
      THEN UNCHANGED worldVars
      ELSE /\ chatHistory' = PushChat(chatHistory, p.data)
           /\ UNCHANGED << entities, targetVars >>

(***************************************************************************)
(* requestCharacterList / selectCharacter                                  *)
(***************************************************************************)
SentPkt(op, n) == [op |-> op, n |-> n, enc |-> socket.encrypted]

\* a variant that checks for the socket instead of the state
requestCharacterListUnguarded ==
    /\ pc = "idle"
    /\ UNCHANGED calc
    /\ lastOp' = Op("requestCharacterList")
    /\ IF ~socket.exists
         THEN UNCHANGED << state, sent >>
         ELSE /\ sent' = Append(sent, SentPkt("CMSG_CHAR_ENUM", 0))
              /\ state' = "CHAR_LIST_REQUESTED"
    /\ UNCHANGED << socket, credVars, dataVars, pingVars, cbVars, worldVars,
                    pc,
                    failVars, successCalls, connects, fed >>

requestCharacterList ==
    /\ pc = "idle"
    /\ UNCHANGED calc
    /\ lastOp' = Op("requestCharacterList")
    /\ IF state # "READY" /\ state # "AUTHENTICATED"
         THEN UNCHANGED << state, sent >>
         ELSE /\ sent' = Append(sent, SentPkt("CMSG_CHAR_ENUM", 0))
              /\ state' = "CHAR_LIST_REQUESTED"
    /\ UNCHANGED << socket, credVars, dataVars, pingVars, cbVars, worldVars,
                    pc,
                    failVars, successCalls, connects, fed >>

\* a selectCharacter() without the test of the state
selectCharacterUnguarded(characterGuid) ==
    /\ pc = "idle"
    /\ UNCHANGED calc
    /\ lastOp' = Op("selectCharacter")
    /\ socket.exists
    /\ sent' = Append(sent, SentPkt("CMSG_PLAYER_LOGIN", characterGuid))
    /\ state' = "ENTERING_WORLD"
    /\ UNCHANGED << socket, credVars, dataVars, pingVars, cbVars, worldVars,
                    pc,
                    failVars, successCalls, connects, fed >>

selectCharacter(characterGuid) ==
    /\ pc = "idle"
    /\ UNCHANGED calc
    /\ lastOp' = Op("selectCharacter")
    /\ IF state # "CHAR_LIST_RECEIVED"
         THEN UNCHANGED << state, sent >>
         ELSE /\ sent' = Append(sent, SentPkt("CMSG_PLAYER_LOGIN", characterGuid))
              /\ state' = "ENTERING_WORLD"
    /\ UNCHANGED << socket, credVars, dataVars, pingVars, cbVars, worldVars,
                    pc,
                    failVars, successCalls, connects, fed >>

(***************************************************************************)
(* update: socket->update() dispatches the packets that arrived, then the  *)
(* heartbeat                                                               *)
(***************************************************************************)
\* update() up to the dispatch loop of socket->update(): nothing without a
\* socket; the transport may turn out to have been closed by the peer
updateBegin(lost) ==
    /\ pc = "idle"
    /\ UNCHANGED calc
    /\ lastOp' = Op("update")
    /\ IF ~socket.exists
         THEN UNCHANGED << socket, pc >>
         ELSE /\ pc' = "dispatch"
              /\ socket' = SocketPoll(socket, lost)
    /\ UNCHANGED << state, credVars, dataVars, pingVars, cbVars, worldVars,
                    sent,
                    failVars, successCalls, connects, fed >>

\* a variant that sends the sequence number without incrementing it
sendPingNoIncrement ==
    IF state # "IN_WORLD"
      THEN UNCHANGED << pingSequence, sent >>
      ELSE /\ pingSequence' = pingSequence
           /\ sent' = Append(sent, SentPkt("CMSG_PING", pingSequence))

\* sendPing()
sendPing ==
    IF state # "IN_WORLD"
      THEN UNCHANGED << pingSequence, sent >>
      ELSE /\ pingSequence' = pingSequence + 1
           /\ sent' = Append(sent, SentPkt("CMSG_PING", pingSequence + 1))

\* clearTarget()
clearTarget ==
    /\ targetGuid' = 0
    /\ tabCycleIndex' = -1
    /\ tabCycleStale' = TRUE
    /\ UNCHANGED tabCycleList

\* the rest of update(), after socket->update() returned: a target that is
\* no longer in the entity table is cleared, then the heartbeat
updateEnd(deltaTime, partial) ==
    /\ pc = "dispatch"
    /\ UNCHANGED calc
    /\ pc' = "idle"
    /\ lastOp' = Op("update")
    /\ socket' = SocketBuffer(socket, partial)
    /\ IF targetGuid # 0 /\ ~hasEntity(entities, targetGuid)
         THEN clearTarget
         ELSE UNCHANGED targetVars
    /\ IF state = "IN_WORLD"
         THEN IF timeSinceLastPing + deltaTime >= PingInterval
                THEN /\ pingSequence < MaxPings
                     /\ sendPing
                     /\ timeSinceLastPing' = 0
                ELSE /\ timeSinceLastPing' = timeSinceLastPing + deltaTime
                     /\ UNCHANGED << pingSequence, sent >>
         ELSE UNCHANGED << pingVars, sent >>
    /\ UNCHANGED << state, credVars, dataVars, cbVars, entities, chatHistory,
                    failVars, successCalls, connects, fed >>

(***************************************************************************)
(* handlePacket and the handlers                                           *)
(***************************************************************************)
\* a variant that treats a packet nobody takes as fatal
DiscardFatal ==
    /\ fail("Unexpected packet")
    /\ pc' = "dispatch"
    /\ UNCHANGED << dataVars, worldVars >>

\* a packet that no handler takes
Discard ==
    /\ pc' = "dispatch"
    /\ UNCHANGED << state, dataVars, failVars, worldVars >>

handleAuthChallenge(p) ==
    IF ~AuthChallengeParser(p)
      THEN /\ fail("Failed to parse SMSG_AUTH_CHALLENGE")
           /\ pc' = "dispatch"
           /\ UNCHANGED dataVars
      ELSE IF ~ChallengeIsValid(p)
        THEN /\ fail("Invalid auth challenge data")
             /\ pc' = "dispatch"
             /\ UNCHANGED dataVars
        ELSE /\ serverSeed' = p.n
             /\ state' = "CHALLENGE_RECEIVED"
             /\ pc' = "sendAuthSession"
             /\ UNCHANGED << characters, movementInfo, failVars >>

\* a variant with the test of isSuccess() the wrong way round
handleAuthResponseInverted(p) ==
    IF ~AuthResponseParser(p)
      THEN /\ fail("Failed to parse SMSG_AUTH_RESPONSE")
           /\ pc' = "dispatch"
           /\ UNCHANGED dataVars
      ELSE IF ResponseIsSuccess(p)
        THEN /\ fail("Authentication failed: " \o getAuthResultString(p.result))
             /\ pc' = "dispatch"
             /\ UNCHANGED dataVars
        ELSE /\ state' = "AUTHENTICATED"
             /\ pc' = "authenticated"
             /\ UNCHANGED << dataVars, failVars >>

\* a variant that does not look at the result of the response
handleAuthResponseLenient(p) ==
    IF ~AuthResponseParser(p)
      THEN /\ fail("Failed to parse SMSG_AUTH_RESPONSE")
           /\ pc' = "dispatch"
           /\ UNCHANGED dataVars
      ELSE /\ state' = "AUTHENTICATED"
           /\ pc' = "authenticated"
           /\ UNCHANGED << dataVars, failVars >>

handleAuthResponse(p) ==
    IF ~AuthResponseParser(p)
      THEN /\ fail("Failed to parse SMSG_AUTH_RESPONSE")
           /\ pc' = "dispatch"
           /\ UNCHANGED dataVars
      ELSE IF ~ResponseIsSuccess(p)
        THEN /\ fail("Authentication failed: " \o getAuthResultString(p.result))
             /\ pc' = "dispatch"
             /\ UNCHANGED dataVars
        ELSE /\ state' = "AUTHENTICATED"
             /\ pc' = "authenticated"
             /\ UNCHANGED << dataVars, failVars >>

handleCharEnum(p) ==
    IF ~CharEnumParser(p)
      THEN /\ fail("Failed to parse SMSG_CHAR_ENUM")
           /\ pc' = "dispatch"
           /\ UNCHANGED dataVars
      ELSE /\ characters' = 1..p.n
           /\ state' = "CHAR_LIST_RECEIVED"
           /\ pc' = "dispatch"
           /\ UNCHANGED << serverSeed, movementInfo, failVars >>

\* a variant that sends the user back to the roster on an unusable world entry
handleLoginVerifyWorldBackToRoster(p) ==
    IF ~LoginVerifyWorldParser(p) \/ ~VerifyIsValid(p)
      THEN /\ state' = "CHAR_LIST_RECEIVED"
           /\ pc' = "dispatch"
           /\ UNCHANGED << dataVars, failVars >>
      ELSE /\ state' = "IN_WORLD"
           /\ movementInfo' = [pos |-> p.n, flags |-> 0, time |-> 0]
           /\ pc' = "dispatch"
           /\ UNCHANGED << serverSeed, characters, failVars >>

handleLoginVerifyWorld(p) ==
    IF ~LoginVerifyWorldParser(p)
      THEN /\ fail("Failed to parse SMSG_LOGIN_VERIFY_WORLD")
           /\ pc' = "dispatch"
           /\ UNCHANGED dataVars
      ELSE IF ~VerifyIsValid(p)
        THEN /\ fail("Invalid world entry data")
             /\ pc' = "dispatch"
             /\ UNCHANGED dataVars
        ELSE /\ state' = "IN_WORLD"
             /\ movementInfo' = [pos |-> p.n, flags |-> 0, time |-> 0]
             /\ pc' = "dispatch"
             /\ UNCHANGED << serverSeed, characters, failVars >>

\* handleAccountDataTimes, handleMotd and handlePong parse, log and return
handleAccountDataTimes(p) == Discard

handleMotd(p) == IF ~MotdParser(p) THEN Discard ELSE Discard

\* a variant that gives the session up on a pong out of sequence
handlePongStrict(p) ==
    IF ~PongParser(p)
      THEN Discard
      ELSE IF p.n # pingSequence
        THEN /\ fail("Pong sequence mismatch")
             /\ pc' = "dispatch"
             /\ UNCHANGED << dataVars, worldVars >>
        ELSE Discard

handlePong(p) ==
    IF ~PongParser(p)
      THEN Discard
      ELSE IF p.n # pingSequence THEN Discard ELSE Discard

\* the cases of the switch that hand a packet to a handler of the handshake
Takes(p) ==
    /\ p.size >= 1
    /\ \/ p.op = "SMSG_AUTH_CHALLENGE" /\ state = "CONNECTED"
       \/ p.op = "SMSG_AUTH_RESPONSE" /\ state = "AUTH_SENT"
       \/ p.op = "SMSG_CHAR_ENUM" /\ state = "CHAR_LIST_REQUESTED"
       \/ p.op = "SMSG_LOGIN_VERIFY_WORLD" /\ state = "ENTERING_WORLD"

\* a packet of the world phase leaves the session as it is
InWorld(handler) ==
    /\ handler
    /\ pc' = "dispatch"
    /\ UNCHANGED << state, dataVars, failVars >>

\* the switch of handlePacket
handlePacket(p) ==
    /\ pc = "dispatch"
    /\ UNCHANGED calc
    /\ socket.connected
    /\ lastOp' = OpPkt("handlePacket", p)
    /\ fed' = IF Takes(p) THEN Append(fed, p) ELSE fed
    /\ IF p.size < 1
         THEN Discard
         ELSE CASE p.op = "SMSG_AUTH_CHALLENGE" ->
                     IF state = "CONNECTED"
                       THEN handleAuthChallenge(p) /\ UNCHANGED worldVars
                       ELSE Discard
                [] p.op = "SMSG_AUTH_RESPONSE" ->
                     IF state = "AUTH_SENT"
                       THEN handleAuthResponse(p) /\ UNCHANGED worldVars
                       ELSE Discard
                [] p.op = "SMSG_CHAR_ENUM" ->
                     IF state = "CHAR_LIST_REQUESTED"
                       THEN handleCharEnum(p) /\ UNCHANGED worldVars
                       ELSE Discard
                [] p.op = "SMSG_LOGIN_VERIFY_WORLD" ->
                     IF state = "ENTERING_WORLD"
                       THEN handleLoginVerifyWorld(p) /\ UNCHANGED worldVars
                       ELSE Discard
                [] p.op = "SMSG_ACCOUNT_DATA_TIMES" -> handleAccountDataTimes(p)
                [] p.op = "SMSG_MOTD" -> handleMotd(p)
                [] p.op = "SMSG_PONG" -> handlePong(p)
                [] p.op = "SMSG_UPDATE_OBJECT" ->
                     IF state = "IN_WORLD"
                       THEN InWorld(handleUpdateObject(p)) ELSE Discard
                [] p.op = "SMSG_DESTROY_OBJECT" ->
                     IF state = "IN_WORLD"
                       THEN InWorld(handleDestroyObject(p)) ELSE Discard
                [] p.op = "SMSG_MESSAGECHAT" ->
                     IF state = "IN_WORLD"
                       THEN InWorld(handleMessageChat(p)) ELSE Discard
                [] OTHER -> Discard
    /\ UNCHANGED << socket, credVars, pingVars, cbVars, sent, successCalls,
                    connects >>

\* sendAuthSession(): the credentials go out through socket->send ...
sendAuthSession ==
    /\ pc = "sendAuthSession"
    /\ UNCHANGED calc
    /\ pc' = "initEncryption"
    /\ lastOp' = Op("sendAuthSession")
    /\ sent' = Append(sent, SentPkt("CMSG_AUTH_SESSION", serverSeed))
    /\ UNCHANGED << state, socket, credVars, dataVars, pingVars, cbVars,
                    worldVars,
                    failVars, successCalls, connects, fed >>

\* a variant that leaves the cipher of the socket alone
initEncryptionSkipped ==
    /\ pc = "initEncryption"
    /\ UNCHANGED calc
    /\ pc' = "authSent"
    /\ lastOp' = Op("sendAuthSession")
    /\ UNCHANGED << state, socket, credVars, dataVars, pingVars, cbVars,
                    worldVars, sent,
                    failVars, successCalls, connects, fed >>

\* ... then socket->initEncryption(sessionKey) ...
initEncryption ==
    /\ pc = "initEncryption"
    /\ UNCHANGED calc
    /\ pc' = "authSent"
    /\ lastOp' = Op("sendAuthSession")
    /\ socket' = SocketInitEncryption(socket, sessionKey)
    /\ UNCHANGED << state, credVars, dataVars, pingVars, cbVars, worldVars,
                    sent,
                    failVars, successCalls, connects, fed >>

\* a variant that leaves the session in CONNECTED when the credentials are
\* out
authSentStaysConnected ==
    /\ pc = "authSent"
    /\ UNCHANGED calc
    /\ pc' = "dispatch"
    /\ lastOp' = Op("sendAuthSession")
    /\ state' = "CONNECTED"
    /\ UNCHANGED << socket, credVars, dataVars, pingVars, cbVars, worldVars,
                    sent,
                    failVars, successCalls, connects, fed >>

\* ... then setState(AUTH_SENT), and handleAuthChallenge returns
authSent ==
    /\ pc = "authSent"
    /\ UNCHANGED calc
    /\ pc' = "dispatch"
    /\ lastOp' = Op("sendAuthSession")
    /\ state' = "AUTH_SENT"
    /\ UNCHANGED << socket, credVars, dataVars, pingVars, cbVars, worldVars,
                    sent,
                    failVars, successCalls, connects, fed >>

\* the rest of handleAuthResponse after setState(AUTHENTICATED):
\* setState(READY) and the success callback
authReady ==
    /\ pc = "authenticated"
    /\ UNCHANGED calc
    /\ pc' = "dispatch"
    /\ lastOp' = Op("handleAuthResponse")
    /\ state' = "READY"
    /\ successCalls' = IF onSuccess THEN successCalls + 1 ELSE successCalls
    /\ UNCHANGED << socket, credVars, dataVars, pingVars, cbVars, worldVars,
                    sent,
                    failVars, connects, fed >>

Next ==
    \/ \E cb \in BOOLEAN : setOnSuccess(cb)
    \/ \E cb \in BOOLEAN : setOnFailure(cb)
    \/ \E a \in ConnectArgs, seed \in ClientSeeds : connect(a, seed)
    \/ \E ok \in BOOLEAN : connectResult(ok)
    \/ disconnect
    \/ requestCharacterList
    \/ \E g \in Guids : selectCharacter(g)
    \/ \E lost \in BOOLEAN : updateBegin(lost)
    \/ \E p \in Packets : handlePacket(p)
    \/ sendAuthSession
    \/ initEncryption
    \/ authSent
    \/ authReady
    \/ \E dt \in DeltaTimes, partial \in PartialBytes : updateEnd(dt, partial)

Spec == Init /\ [][Next]_vars

(***************************************************************************)
(* The world phase on its own.  InitInWorld is the session at the moment   *)
(* handleLoginVerifyWorld has set IN_WORLD (a state Spec reaches); the     *)
(* server then sends entity traffic, which Spec keeps to a minimum.        *)
(***************************************************************************)
Fields1 == [k \in {0} |-> 10]
Fields2 == [k \in {2} |-> 20]

CreateUnit1 == RawBlock("CREATE_OBJECT", 1, "UNIT", 1, Fields1, FALSE)
CreatePlayer2 == RawBlock("CREATE_OBJECT2", 2, "PLAYER", 2, NoFields, FALSE)
Values1 == RawBlock("VALUES", 1, "NONE", 0, Fields2, FALSE)
Movement2 == RawBlock("MOVEMENT", 2, "NONE", 3, NoFields, FALSE)
UnknownBlock == RawBlock("UNKNOWN", 2, "NONE", 0, NoFields, FALSE)
CutBlock == RawBlock("VALUES", 1, "NONE", 0, Fields2, TRUE)

EntityPackets ==
    { WorldPkt("SMSG_UPDATE_OBJECT", 40, UpdateData(1, << >>, << CreateUnit1 >>)),
      WorldPkt("SMSG_UPDATE_OBJECT", 80,
               UpdateData(2, << >>, << CreatePlayer2, Values1 >>)),
      WorldPkt("SMSG_UPDATE_OBJECT", 30, UpdateData(1, << >>, << Movement2 >>)),
      WorldPkt("SMSG_UPDATE_OBJECT", 12, UpdateData(0, << 1 >>, << >>)),
      \* guid 1 leaves the range and is created again in the same message
      WorldPkt("SMSG_UPDATE_OBJECT", 52,
               UpdateData(2, << 1, 2 >>, << CreateUnit1, Movement2 >>)),
      \* guid 1 is created a second time, as another type with other fields
      WorldPkt("SMSG_UPDATE_OBJECT", 41,
               UpdateData(1, << >>,
                          << RawBlock("CREATE_OBJECT", 1, "PLAYER", 4,
                                      Fields2, FALSE) >>)),
      \* a VALUES block for guid 1 is followed by a block for guid 2
      WorldPkt("SMSG_UPDATE_OBJECT", 48,
               UpdateData(2, << >>, << Values1, Movement2 >>)),
      \* the second block has an unknown update type
      WorldPkt("SMSG_UPDATE_OBJECT", 60,
               UpdateData(2, << 1 >>, << CreatePlayer2, UnknownBlock >>)),
      \* the payload ends inside the second block
      WorldPkt("SMSG_UPDATE_OBJECT", 50,
               UpdateData(2, << 2 >>, << CreateUnit1, CutBlock >>)),
      \* the payload ends before the second block
      WorldPkt("SMSG_UPDATE_OBJECT", 44,
               UpdateData(2, << 2 >>, << Values1 >>)),
      WorldPkt("SMSG_DESTROY_OBJECT", 9, [guid |-> 1, isDeath |-> FALSE]),
      WorldPkt("SMSG_DESTROY_OBJECT", 9, [guid |-> 3, isDeath |-> TRUE]),
      WorldPkt("SMSG_DESTROY_OBJECT", 4, [guid |-> 2, isDeath |-> FALSE]) }

InWorldPackets == EntityPackets \cup UnknownPackets

VerifiedEntry == Pkt("SMSG_LOGIN_VERIFY_WORLD", 20, TRUE, "", 5)

InitInWorld ==
    /\ state = "IN_WORLD"
    /\ socket = [exists |-> TRUE, connected |-> TRUE, encrypted |-> TRUE,
                 cipherKey |-> [len |-> 40, tag |-> 1], rx |-> 0]
    /\ sessionKey = [len |-> 40, tag |-> 1]
    /\ accountName = "alice"
    /\ build = DefaultBuild
    /\ clientSeed = 1
    /\ serverSeed = 7
    /\ characters = 1..1
    /\ movementInfo = [pos |-> 5, flags |-> 0, time |-> 0]
    /\ pingSequence = 0
    /\ timeSinceLastPing = 0
    /\ onSuccess \in BOOLEAN
    /\ onFailure \in BOOLEAN
    /\ entities = << >>
    /\ targetGuid = 0
    /\ tabCycleList = << >>
    /\ tabCycleIndex = -1
    /\ tabCycleStale = TRUE
    /\ chatHistory = << >>
    /\ pc = "dispatch"
    /\ sent = << [op |-> "CMSG_AUTH_SESSION", n |-> 7, enc |-> FALSE],
                 [op |-> "CMSG_CHAR_ENUM", n |-> 0, enc |-> TRUE],
                 [op |-> "CMSG_PLAYER_LOGIN", n |-> 1, enc |-> TRUE] >>
    /\ failCalls = 0
    /\ failReason = ""
    /\ successCalls = IF onSuccess THEN 1 ELSE 0
    /\ connects = 1
    /\ lastOp = OpPkt("handlePacket", VerifiedEntry)
    /\ fed = << Pkt("SMSG_AUTH_CHALLENGE", 8, TRUE, "", 7),
                Pkt("SMSG_AUTH_RESPONSE", 1, TRUE, "OK", 0),
                Pkt("SMSG_CHAR_ENUM", 200, TRUE, "", 1),
                VerifiedEntry >>
    /\ calc = NoCalc

NextInWorld ==
    \/ \E lost \in BOOLEAN : updateBegin(lost)
    \/ \E p \in InWorldPackets : handlePacket(p)
    \/ \E dt \in DeltaTimes, partial \in PartialBytes : updateEnd(dt, partial)

SpecInWorld == InitInWorld /\ [][NextInWorld]_vars

(***************************************************************************)
(* Targeting in the world: setTarget, tabTarget and update over an entity  *)
(* table that the server fills and empties.  A position is one coordinate, *)
(* the distance the absolute difference.                                   *)
(***************************************************************************)
\* void GameHandler::setTarget(uint64_t guid)
setTarget(guid) ==
    /\ pc = "idle"
    /\ UNCHANGED calc
    /\ lastOp' = Op("setTarget")
    /\ targetGuid' = IF guid = targetGuid THEN targetGuid ELSE guid
    /\ UNCHANGED << state, socket, credVars, dataVars, pingVars, cbVars,
                    entities, tabCycleList, tabCycleIndex, tabCycleStale,
                    chatHistory, sent, failVars, successCalls, connects,
                    fed, pc >>

\* sqrt(dx*dx + dy*dy + dz*dz) of tabTarget
Distance(e, player) ==
    IF e.pos >= player THEN e.pos - player ELSE player - e.pos

\* the lists the rebuild of tabTarget can produce: the guids of the UNIT and
\* PLAYER entities, ordered by std::sort with a.distance < b.distance, which
\* leaves the order of entities at the same distance open
SortedByDistance(ents, player) ==
    LET sortable == { g \in DOMAIN ents : ents[g].type \in {"UNIT", "PLAYER"} }
    IN  { list \in [1..Cardinality(sortable) -> sortable] :
            /\ \A i, j \in DOMAIN list : i # j => list[i] # list[j]
            /\ \A i, j \in DOMAIN list :
                  i < j => Distance(ents[list[i]], player)
                             <= Distance(ents[list[j]], player) }

\* a variant that cycles through the list it has, stale or not
tabTargetNoRebuild(player) ==
    /\ pc = "idle"
    /\ UNCHANGED calc
    /\ lastOp' = OpPkt("tabTarget", [op |-> "none", player |-> player])
    /\ IF tabCycleList = << >>
         THEN /\ targetGuid' = 0
              /\ tabCycleIndex' = -1
              /\ tabCycleStale' = TRUE
              /\ UNCHANGED tabCycleList
         ELSE /\ tabCycleIndex' = (tabCycleIndex + 1) % Len(tabCycleList)
              /\ targetGuid' = tabCycleList[tabCycleIndex' + 1]
              /\ UNCHANGED << tabCycleList, tabCycleStale >>
    /\ UNCHANGED << state, socket, credVars, dataVars, pingVars, cbVars,
                    entities, chatHistory, sent, failVars, successCalls,
                    connects, fed, pc >>

\* void GameHandler::tabTarget(float playerX, float playerY, float playerZ)
tabTarget(player) ==
    /\ pc = "idle"
    /\ UNCHANGED calc
    /\ lastOp' = OpPkt("tabTarget", [op |-> "none", player |-> player])
    /\ \E list \in IF tabCycleStale
                      THEN SortedByDistance(entities, player)
                      ELSE { tabCycleList } :
         /\ tabCycleList' = list
         /\ IF list = << >>
              THEN /\ targetGuid' = 0
                   /\ tabCycleIndex' = -1
                   /\ tabCycleStale' = TRUE
              ELSE /\ tabCycleIndex' =
                        ((IF tabCycleStale THEN -1 ELSE tabCycleIndex) + 1)
                          % Len(list)
                   /\ targetGuid' = list[tabCycleIndex' + 1]
                   /\ tabCycleStale' = FALSE
    /\ UNCHANGED << state, socket, credVars, dataVars, pingVars, cbVars,
                    entities, chatHistory, sent, failVars, successCalls,
                    connects, fed, pc >>

\* the messages of the server: a unit 1 at 1, a player 2 at 2 (and a field
\* for 1), a game object 3 at 2, 1 again as a player at 4, 2 moved to 3, 1
\* destroyed, 1 out of range
TargetPackets ==
    { WorldPkt("SMSG_UPDATE_OBJECT", 40, UpdateData(1, << >>, << CreateUnit1 >>)),
      WorldPkt("SMSG_UPDATE_OBJECT", 80,
               UpdateData(2, << >>, << CreatePlayer2, Values1 >>)),
      WorldPkt("SMSG_UPDATE_OBJECT", 42,
               UpdateData(1, << >>,
                          << RawBlock("CREATE_OBJECT", 3, "GAMEOBJECT", 2,
                                      NoFields, FALSE) >>)),
      WorldPkt("SMSG_UPDATE_OBJECT", 41,
               UpdateData(1, << >>,
                          << RawBlock("CREATE_OBJECT", 1, "PLAYER", 4,
                                      Fields2, FALSE) >>)),
      WorldPkt("SMSG_UPDATE_OBJECT", 30, UpdateData(1, << >>, << Movement2 >>)),
      WorldPkt("SMSG_UPDATE_OBJECT", 12, UpdateData(0, << 1 >>, << >>)),
      WorldPkt("SMSG_DESTROY_OBJECT", 9, [guid |-> 1, isDeath |-> FALSE]) }

InitTarget == InitInWorld /\ onSuccess /\ onFailure

NextTarget ==
    \/ \E g \in {1, 3} : setTarget(g)
    \/ \E player \in {0, 3} : tabTarget(player)
    \/ updateBegin(FALSE)
    \/ \E p \in TargetPackets : handlePacket(p)
    \/ updateEnd(15, 0)
    \/ disconnect

SpecTarget == InitTarget /\ [][NextTarget]_vars

(***************************************************************************)
(* The chat history in the world: messages of the server and of the        *)
(* application, numbered in the order they arrive                          *)
(***************************************************************************)
MaxChatMsgs == 103

\* void GameHandler::addLocalChatMessage(const MessageChatData& msg)
addLocalChatMessage(msg) ==
    /\ pc = "idle"
    /\ UNCHANGED calc
    /\ lastOp' = Op("addLocalChatMessage")
    /\ chatHistory' = PushChat(chatHistory, msg)
    /\ UNCHANGED << state, socket, credVars, dataVars, pingVars, cbVars,
                    entities, targetVars, sent, failVars, successCalls,
                    connects, fed, pc >>

\* std::vector<MessageChatData> GameHandler::getChatHistory(size_t
\* maxMessages) const: the value it returns is kept in calc.result
getChatHistory(maxMessages) ==
    /\ pc = "idle"
    /\ lastOp' = Op("getChatHistory")
    /\ calc' = [fn |-> "getChatHistory", maxMessages |-> maxMessages,
                result |->
                  IF maxMessages = 0 \/ maxMessages >= Len(chatHistory)
                    THEN chatHistory
                    ELSE SubSeq(chatHistory,
                                Len(chatHistory) - maxMessages + 1,
                                Len(chatHistory))]
    /\ UNCHANGED << state, socket, credVars, dataVars, pingVars, cbVars,
                    worldVars, sent, failVars, successCalls, connects, fed,
                    pc >>

\* the number of the next message to arrive
NextChatNumber ==
    IF chatHistory = << >> THEN 1 ELSE chatHistory[Len(chatHistory)] + 1

\* the history is read while it is short and once it is about full
NextChat ==
    \/ updateBegin(FALSE)
    \/ /\ NextChatNumber <= MaxChatMsgs
       /\ handlePacket(WorldPkt("SMSG_MESSAGECHAT", 20, NextChatNumber))
    \/ handlePacket(WorldPkt("SMSG_MESSAGECHAT", 4, 0))
    \/ updateEnd(15, 0)
    \/ /\ NextChatNumber <= MaxChatMsgs
       /\ addLocalChatMessage(NextChatNumber)
    \/ /\ Len(chatHistory) <= 3 \/ NextChatNumber >= MaxChatHistory
       /\ \E maxMessages \in {0, 2, MaxChatHistory} :
             getChatHistory(maxMessages)

SpecChat == InitTarget /\ [][NextChat]_vars

(***************************************************************************)
(* Packed guids (UpdateObjectParser::readPackedGuid).  A buffer is a       *)
(* sequence of bytes, a position counts from 1; a 64-bit guid is the       *)
(* function from its byte positions 0..7 (least significant first) to its  *)
(* bytes.                                                                  *)
(***************************************************************************)
GuidWidth == 8

Bit(x, i) == (x \div (2 ^ i)) % 2

\* a | b on bytes
RECURSIVE OrBits(_, _, _)
OrBits(a, b, i) ==
    IF i = 8
      THEN 0
      ELSE (IF Bit(a, i) = 1 \/ Bit(b, i) = 1 THEN 2 ^ i ELSE 0)
             + OrBits(a, b, i + 1)

ZeroGuid == [i \in 0..(GuidWidth - 1) |-> 0]

\* packet.readUInt8() inside the payload
readUInt8(buf, pos) == [value |-> buf[pos], pos |-> pos + 1]

\* the loop of readPackedGuid from bit i up to bit last: a set bit of the
\* mask reads one byte and ors it in at byte position i
RECURSIVE ReadGuidBytes(_, _, _, _, _, _)
ReadGuidBytes(buf, pos, mask, i, last, guid) ==
    IF i >= last
      THEN [guid |-> guid, pos |-> pos]
      ELSE IF Bit(mask, i) = 1
        THEN ReadGuidBytes(buf, readUInt8(buf, pos).pos, mask, i + 1, last,
               [guid EXCEPT ![i] = OrBits(@, readUInt8(buf, pos).value, 0)])
        ELSE ReadGuidBytes(buf, pos, mask, i + 1, last, guid)

\* a variant whose loop stops one bit early
readPackedGuidShortLoop(buf, pos) ==
    IF readUInt8(buf, pos).value = 0
      THEN [guid |-> ZeroGuid, pos |-> readUInt8(buf, pos).pos]
      ELSE ReadGuidBytes(buf, readUInt8(buf, pos).pos,
                         readUInt8(buf, pos).value, 0, GuidWidth - 1, ZeroGuid)

readPackedGuid(buf, pos) ==
    IF readUInt8(buf, pos).value = 0
      THEN [guid |-> ZeroGuid, pos |-> readUInt8(buf, pos).pos]
      ELSE ReadGuidBytes(buf, readUInt8(buf, pos).pos,
                         readUInt8(buf, pos).value, 0, GuidWidth, ZeroGuid)

\* the reference encoding: the mask has bit i set iff byte i of the guid is
\* not zero, and those bytes follow, least significant first
RECURSIVE PackedMask(_, _)
PackedMask(id, i) ==
    IF i = GuidWidth
      THEN 0
      ELSE (IF id[i] # 0 THEN 2 ^ i ELSE 0) + PackedMask(id, i + 1)

RECURSIVE PackedBytes(_, _)
PackedBytes(id, i) ==
    IF i = GuidWidth
      THEN << >>
      ELSE (IF id[i] # 0 THEN << id[i] >> ELSE << >>) \o PackedBytes(id, i + 1)

EncodePackedGuid(id) == << PackedMask(id, 0) >> \o PackedBytes(id, 0)

\* the guids tried: every byte is 0, 0xFF or the byte 0x1122334455667788
\* has at its position
SampleGuid == [i \in 0..(GuidWidth - 1) |-> 17 * (GuidWidth - i)]

GuidInputs ==
    { [i \in 0..(GuidWidth - 1) |->
         CASE c[i] = 0 -> 0 [] c[i] = 1 -> 255 [] OTHER -> SampleGuid[i]] :
      c \in [0..(GuidWidth - 1) -> 0..2] }

\* what follows the guid in the payload
Trailers == { << >>, << 170 >> }

InitPackedGuid ==
    /\ Constructed
    /\ \E id \in GuidInputs : calc = [fn |-> "packedGuid", stage |-> "id", id |-> id]

guidEncode(trailer) ==
    /\ calc.fn = "packedGuid" /\ calc.stage = "id"
    /\ calc' = [fn |-> "packedGuid", stage |-> "encoded", id |-> calc.id,
                buf |-> EncodePackedGuid(calc.id) \o trailer]
    /\ UNCHANGED sessionVars

guidDecode ==
    /\ calc.fn = "packedGuid" /\ calc.stage = "encoded"
    /\ calc' = [fn |-> "packedGuid", stage |-> "decoded", id |-> calc.id,
                buf |-> calc.buf, result |-> readPackedGuid(calc.buf, 1)]
    /\ UNCHANGED sessionVars

NextPackedGuid ==
    \/ \E t \in Trailers : guidEncode(t)
    \/ guidDecode

SpecPackedGuid == InitPackedGuid /\ [][NextPackedGuid]_vars

(***************************************************************************)
(* Update fields (UpdateObjectParser::parseUpdateFields).  A 32-bit word   *)
(* is the sequence of its four bytes as they lie in the payload, least     *)
(* significant first.                                                      *)
(***************************************************************************)
WordBits == 32

\* packet.readUInt32() inside the payload
readUInt32(buf, pos) == [value |-> SubSeq(buf, pos, pos + 3), pos |-> pos + 4]

\* mask & (1 << bit) on a 32-bit word
MaskBit(word, bit) == Bit(word[(bit \div 8) + 1], bit % 8)

\* the loop that reads the update mask: count words
RECURSIVE ReadMaskWords(_, _, _)
ReadMaskWords(buf, pos, count) ==
    IF count = 0
      THEN << >>
      ELSE << readUInt32(buf, pos).value >>
             \o ReadMaskWords(buf, readUInt32(buf, pos).pos, count - 1)

\* the loops over the mask words and over the bits of each, as the turns
\* lo .. hi - 1 over blockIdx * 32 + bit, only the bits from bit first on
\* being looked at: a set bit reads one value at acc.pos and stores it in
\* acc.fields under the field index blockIdx * 32 + bit (a uint16_t). The
\* range is halved so that the evaluation stays shallow; the turns run in
\* increasing order.
RECURSIVE ReadFieldValues(_, _, _, _, _, _)
ReadFieldValues(buf, updateMask, acc, lo, hi, first) ==
    IF acc.pos >= 1 /\ hi = lo + 1
      THEN LET blockIdx == lo \div WordBits
               bit      == lo % WordBits
           IN  IF bit >= first /\ MaskBit(updateMask[blockIdx + 1], bit) = 1
                 THEN [fields |->
                         setFields(acc.fields,
                           [k \in {(blockIdx * WordBits + bit) % 65536} |->
                              readUInt32(buf, acc.pos).value]),
                       pos |-> readUInt32(buf, acc.pos).pos]
                 ELSE acc
      ELSE LET mid == (lo + hi) \div 2
           IN  ReadFieldValues(buf, updateMask,
                 ReadFieldValues(buf, updateMask, acc, lo, mid, first),
                 mid, hi, first)

\* a variant whose loop over the bits starts at bit 1
parseUpdateFieldsFromBitOne(buf, pos) ==
    IF readUInt8(buf, pos).value = 0
      THEN [fields |-> NoFields, pos |-> readUInt8(buf, pos).pos]
      ELSE ReadFieldValues(buf,
             ReadMaskWords(buf, readUInt8(buf, pos).pos,
                           readUInt8(buf, pos).value),
             [fields |-> NoFields,
              pos |-> readUInt8(buf, pos).pos
                        + 4 * readUInt8(buf, pos).value],
             0, readUInt8(buf, pos).value * WordBits, 1)

parseUpdateFields(buf, pos) ==
    IF readUInt8(buf, pos).value = 0
      THEN [fields |-> NoFields, pos |-> readUInt8(buf, pos).pos]
      ELSE ReadFieldValues(buf,
             ReadMaskWords(buf, readUInt8(buf, pos).pos,
                           readUInt8(buf, pos).value),
             [fields |-> NoFields,
              pos |-> readUInt8(buf, pos).pos
                        + 4 * readUInt8(buf, pos).value],
             0, readUInt8(buf, pos).value * WordBits, 0)

\* the mask words tried: 0, 0b101, bit 31, bits 0 and 31, bits 1 and 16,
\* bits 8..15, bit 7, bits 0..2
MaskWords ==
    { << 0, 0, 0, 0 >>, << 5, 0, 0, 0 >>, << 0, 0, 0, 128 >>,
      << 1, 0, 0, 128 >>, << 2, 0, 1, 0 >>, << 0, 255, 0, 0 >>,
      << 128, 0, 0, 0 >>, << 7, 0, 0, 0 >> }

MaxMaskWords == 2

UpdateMasks == UNION { [1..n -> MaskWords] : n \in 0..MaxMaskWords }

\* the k-th value of the payload
FieldValue(k) == << k, 0, 0, 170 >>

\* the number of set bits of an update mask from index j - 1 on
MaskPopCount(updateMask, j) ==
    Cardinality({ i \in j..(Len(updateMask) * WordBits) :
                    MaskBit(updateMask[((i - 1) \div WordBits) + 1],
                            (i - 1) % WordBits) = 1 })

RECURSIVE Flatten(_)
Flatten(words) ==
    IF words = << >> THEN << >> ELSE Head(words) \o Flatten(Tail(words))

\* the payload of a field block: the count of mask words, the mask words and
\* one value per set bit
FieldsPayload(updateMask) ==
    << Len(updateMask) >> \o Flatten(updateMask)
      \o Flatten([k \in 1..MaskPopCount(updateMask, 1) |-> FieldValue(k)])

InitFields ==
    /\ Constructed
    /\ \E m \in UpdateMasks :
         calc = [fn |-> "fields", stage |-> "payload", updateMask |-> m,
                 buf |-> FieldsPayload(m) \o << 170 >>]

fieldsParse ==
    /\ calc.fn = "fields" /\ calc.stage = "payload"
    /\ calc' = [calc EXCEPT !.stage = "parsed"]
                 @@ [result |-> parseUpdateFields(calc.buf, 1)]
    /\ UNCHANGED sessionVars

NextFields == fieldsParse

SpecFields == InitFields /\ [][NextFields]_vars

\* ---------------------------------------------------------------------------
\* TCPSocket stream framer (authentication protocol)
\*
\* The implementation file of network::TCPSocket is not part of the sources;
\* the framer is modelled from docs/packet-framing.md, whose snippets show
\* tryParsePackets() and getExpectedPacketSize() in abridged form (status, gLen,
\* nLen and packetData are not declared there) and whose prose and unit test
\* fix what the snippets leave out: the parsed bytes are removed from the
\* buffer, an unrecognised opcode stops the pass with the buffer preserved, and
\* a size that cannot be computed yet is "need more data".
\* ---------------------------------------------------------------------------

\* the most messages a test stream is built from
MaxMsgs == 2

\* size_t TCPSocket::getExpectedPacketSize(uint8_t opcode): the size of the
\* message at the head of the receive buffer, 0 when it cannot be told
getExpectedPacketSize(receiveBuffer) ==
    LET opcode == receiveBuffer[1]
        size   == Len(receiveBuffer)
    IN  CASE opcode = 0 ->
               IF size < 3 THEN 0
               ELSE IF receiveBuffer[3] = 0
                    THEN IF size < 36 THEN 0
                         ELSE LET gLen == receiveBuffer[36]
                              IN  IF size < 36 + gLen + 1 THEN 0
                                  ELSE LET nLen == receiveBuffer[36 + gLen + 1]
                                       IN  36 + gLen + 1 + nLen + 32 + 16 + 1
                    ELSE 3
          [] opcode = 1 ->
               IF size < 2 THEN 0
               ELSE IF receiveBuffer[2] = 0 THEN 22 ELSE 2
          [] opcode = 16 -> 0
          [] OTHER -> 0

\* the bytes the server sends: the messages one after the other, then the tail
Stream == Flatten(calc.msgs) \o calc.tail

\* two sockets receive the same stream, "whole" in a single recv(), "bytes" one
\* byte per update(). The messages are those the framer knows the size of:
\* LOGON_PROOF failure (2 bytes) and success (22 bytes), LOGON_CHALLENGE
\* failure (3 bytes) and success with a 1-byte g and a 2-byte N
\* (36 + 1 + 1 + 2 + 32 + 16 + 1 = 89 bytes). After the last message comes
\* nothing, the start of a message whose size cannot be told yet, the start of
\* a message of known size, a REALM_LIST response or an unknown opcode.
InitFramer ==
    /\ Constructed
    /\ \E n \in 0..MaxMsgs :
       \E m \in [1..n ->
                  { << 1, 4 >>,
                    << 1, 0 >> \o [i \in 1..20 |-> i],
                    << 0, 0, 5 >>,
                    << 0, 0, 0 >> \o [i \in 1..32 |-> 100 + i] \o << 1, 7 >>
                      \o << 2, 137, 75 >> \o [i \in 1..32 |-> 200 + i]
                      \o [i \in 1..16 |-> 0] \o << 0 >> }] :
       \E t \in { << >>, << 1 >>, << 1, 0, 9, 9 >>, << 0, 0 >>,
                  << 0, 0, 0 >> \o [i \in 1..32 |-> 100 + i] \o << 1 >>,
                  << 16, 3, 0, 1, 1, 1 >>, << 66, 1, 1 >> } :
         LET s0 == [receiveBuffer |-> << >>, delivered |-> << >>,
                    pc |-> "idle", fed |-> 0, updates |-> 0, passLen |-> 0,
                    iters |-> 0]
         IN  calc = [fn |-> "framer", msgs |-> m, tail |-> t,
                     whole |-> s0, bytes |-> s0]

\* void TCPSocket::update() with data available, socket f appends it to its
\* receive buffer and enters tryParsePackets(); the receive buffer is replaced
\* by the chunk
updateDropsBuffered(f) ==
    /\ calc.fn = "framer" /\ calc[f].pc = "idle"
    /\ calc[f].fed < Len(Stream)
    /\ LET n     == IF f = "whole" THEN Len(Stream) ELSE 1
           chunk == SubSeq(Stream, calc[f].fed + 1, calc[f].fed + n)
       IN  calc' = [calc EXCEPT ![f] =
                      [@ EXCEPT !.receiveBuffer = chunk,
                                !.fed = @ + n, !.updates = @ + 1,
                                !.passLen = Len(chunk),
                                !.iters = 0, !.pc = "parse"]]
    /\ UNCHANGED sessionVars

\* void TCPSocket::update() with data available: recv() returns the next chunk
\* of the stream, socket f appends it to its receive buffer and enters
\* tryParsePackets()
update(f) ==
    /\ calc.fn = "framer" /\ calc[f].pc = "idle"
    /\ calc[f].fed < Len(Stream)
    /\ LET n     == IF f = "whole" THEN Len(Stream) ELSE 1
           chunk == SubSeq(Stream, calc[f].fed + 1, calc[f].fed + n)
           buf   == calc[f].receiveBuffer \o chunk
       IN  calc' = [calc EXCEPT ![f] =
                      [@ EXCEPT !.receiveBuffer = buf,
                                !.fed = @ + n, !.updates = @ + 1,
                                !.passLen = Len(buf),
                                !.iters = 0, !.pc = "parse"]]
    /\ UNCHANGED sessionVars

\* one turn of the loop of tryParsePackets() that returns after the first
\* delivered packet
tryParsePacketsOnePerCall(f) ==
    /\ calc.fn = "framer" /\ calc[f].pc = "parse"
    /\ LET buf  == calc[f].receiveBuffer
           size == IF Len(buf) >= 1 THEN getExpectedPacketSize(buf) ELSE 0
       IN  IF size # 0 /\ Len(buf) >= size
           THEN calc' = [calc EXCEPT ![f] =
                  [@ EXCEPT !.delivered =
                              Append(@, [opcode |-> buf[1],
                                         data |-> SubSeq(buf, 1, size)]),
                            !.receiveBuffer = SubSeq(buf, size + 1, Len(buf)),
                            !.iters = @ + 1, !.pc = "idle"]]
           ELSE calc' = [calc EXCEPT ![f] = [@ EXCEPT !.pc = "idle"]]
    /\ UNCHANGED sessionVars

\* one turn of the loop of tryParsePackets() that leaves the delivered bytes in
\* the receive buffer
tryParsePacketsKeepsBytes(f) ==
    /\ calc.fn = "framer" /\ calc[f].pc = "parse"
    /\ LET buf  == calc[f].receiveBuffer
           size == IF Len(buf) >= 1 THEN getExpectedPacketSize(buf) ELSE 0
       IN  IF size # 0 /\ Len(buf) >= size
           THEN calc' = [calc EXCEPT ![f] =
                  [@ EXCEPT !.delivered =
                              Append(@, [opcode |-> buf[1],
                                         data |-> SubSeq(buf, 1, size)]),
                            !.iters = @ + 1]]
           ELSE calc' = [calc EXCEPT ![f] = [@ EXCEPT !.pc = "idle"]]
    /\ UNCHANGED sessionVars

\* one turn of the loop of tryParsePackets() that throws away what it cannot
\* parse yet
tryParsePacketsDiscardsPartial(f) ==
    /\ calc.fn = "framer" /\ calc[f].pc = "parse"
    /\ LET buf  == calc[f].receiveBuffer
           size == IF Len(buf) >= 1 THEN getExpectedPacketSize(buf) ELSE 0
       IN  IF size # 0 /\ Len(buf) >= size
           THEN calc' = [calc EXCEPT ![f] =
                  [@ EXCEPT !.delivered =
                              Append(@, [opcode |-> buf[1],
                                         data |-> SubSeq(buf, 1, size)]),
                            !.receiveBuffer = SubSeq(buf, size + 1, Len(buf)),
                            !.iters = @ + 1]]
           ELSE calc' = [calc EXCEPT ![f] =
                  [@ EXCEPT !.receiveBuffer = << >>, !.pc = "idle"]]
    /\ UNCHANGED sessionVars

\* void TCPSocket::tryParsePackets(), one turn of its while loop: with a
\* complete message at the head of the buffer, slice it out, remove its bytes
\* and hand it to the packet callback; otherwise leave the loop and return
tryParsePackets(f) ==
    /\ calc.fn = "framer" /\ calc[f].pc = "parse"
    /\ LET buf  == calc[f].receiveBuffer
           size == IF Len(buf) >= 1 THEN getExpectedPacketSize(buf) ELSE 0
       IN  IF size # 0 /\ Len(buf) >= size
           THEN calc' = [calc EXCEPT ![f] =
                  [@ EXCEPT !.delivered =
                              Append(@, [opcode |-> buf[1],
                                         data |-> SubSeq(buf, 1, size)]),
                            !.receiveBuffer = SubSeq(buf, size + 1, Len(buf)),
                            !.iters = @ + 1]]
           ELSE calc' = [calc EXCEPT ![f] = [@ EXCEPT !.pc = "idle"]]
    /\ UNCHANGED sessionVars

\* the "bytes" socket is fed once the "whole" socket has returned from its
\* single update
NextFramer ==
    \/ update("whole")
    \/ tryParsePackets("whole")
    \/ calc.fn = "framer" /\ calc.whole.pc = "idle"
         /\ calc.whole.fed = Len(Stream) /\ update("bytes")
    \/ tryParsePackets("bytes")

SpecFramer == InitFramer /\ [][NextFramer]_vars

\* ---------------------------------------------------------------------------
\* auth::RC4 stream cipher
\* ---------------------------------------------------------------------------

\* a ^ b on bytes
XorByte(a, b) ==
    LET x(i) == ((Bit(a, i) + Bit(b, i)) % 2) * (2 ^ i)
    IN  x(0) + x(1) + x(2) + x(3) + x(4) + x(5) + x(6) + x(7)

\* RC4::RC4(): the identity permutation, both indices 0
NewRC4 == [state |-> [i \in 0..255 |-> i], x |-> 0, y |-> 0]

\* the turns lo .. hi - 1 of the key scheduling loop of RC4::init, applied to
\* the state array and the index j (a uint8_t) of sj; the range is halved so
\* that the evaluation stays shallow, the turns run in increasing order
RECURSIVE KSA(_, _, _, _)
KSA(key, sj, lo, hi) ==
    IF sj.j \in 0..255 /\ hi = lo + 1
      THEN LET S  == sj.state
               j2 == (sj.j + S[lo] + key[(lo % Len(key)) + 1]) % 256
           IN  [state |-> [S EXCEPT ![lo] = S[j2], ![j2] = S[lo]], j |-> j2]
      ELSE LET mid == (lo + hi) \div 2
           IN  KSA(key, KSA(key, sj, lo, mid), mid, hi)

\* the generation loop of RC4::process with the index y never advanced
RECURSIVE PRGAFixedY(_, _, _)
PRGAFixedY(cipher, data, n) ==
    IF n > Len(data)
      THEN [cipher |-> cipher, data |-> data]
      ELSE LET x == (cipher.x + 1) % 256
               y == cipher.y
               s == [cipher.state EXCEPT ![x] = cipher.state[y],
                                         ![y] = cipher.state[x]]
               keystreamByte == s[(s[x] + s[y]) % 256]
           IN  PRGAFixedY([state |-> s, x |-> x, y |-> y],
                    [data EXCEPT ![n] = XorByte(@, keystreamByte)], n + 1)

\* the generation loop of RC4::process from byte n of data (x and y are
\* uint8_t, the keystream index is masked with 0xFF)
RECURSIVE PRGA(_, _, _)
PRGA(cipher, data, n) ==
    IF n > Len(data)
      THEN [cipher |-> cipher, data |-> data]
      ELSE LET x == (cipher.x + 1) % 256
               y == (cipher.y + cipher.state[x]) % 256
               s == [cipher.state EXCEPT ![x] = cipher.state[y],
                                         ![y] = cipher.state[x]]
               keystreamByte == s[(s[x] + s[y]) % 256]
           IN  PRGA([state |-> s, x |-> x, y |-> y],
                    [data EXCEPT ![n] = XorByte(@, keystreamByte)], n + 1)

\* two constructed ciphers, "enc" and "dec", one key (none, "Key", "Wiki" or
\* "Secret") and one buffer holding the plaintext ("Plaintext", "pedia" or
\* "Attack at dawn")
InitRC4 ==
    /\ Constructed
    /\ \E k \in { << >>, << 75, 101, 121 >>, << 87, 105, 107, 105 >>,
                  << 83, 101, 99, 114, 101, 116 >> } :
       \E t \in { << 80, 108, 97, 105, 110, 116, 101, 120, 116 >>,
                  << 112, 101, 100, 105, 97 >>,
                  << 65, 116, 116, 97, 99, 107, 32, 97, 116, 32, 100, 97,
                     119, 110 >> } :
         calc = [fn |-> "rc4", key |-> k, plain |-> t, data |-> t,
                 enc |-> NewRC4, dec |-> NewRC4,
                 inited |-> [enc |-> FALSE, dec |-> FALSE],
                 pos |-> [enc |-> 0, dec |-> 0]]

\* void RC4::init(key) on cipher c: an empty key leaves the cipher as it is
init(c) ==
    /\ calc.fn = "rc4" /\ ~calc.inited[c]
    /\ calc' = [calc EXCEPT
                  !.inited[c] = TRUE,
                  ![c] = IF calc.key = << >>
                           THEN @
                           ELSE [state |-> KSA(calc.key, [state |-> NewRC4.state,
                                                         j |-> 0], 0, 256).state,
                                 x |-> 0, y |-> 0]]
    /\ UNCHANGED sessionVars

\* void RC4::process(data, length) on cipher c: the next length bytes of the
\* buffer are transformed in place
process(c, length) ==
    /\ calc.fn = "rc4" /\ calc.inited[c]
    /\ length >= 1 /\ calc.pos[c] + length <= Len(calc.data)
    /\ LET from == calc.pos[c]
           r    == PRGA(calc[c], SubSeq(calc.data, from + 1, from + length), 1)
       IN  calc' = [calc EXCEPT
                      ![c] = r.cipher,
                      !.pos[c] = from + length,
                      !.data = SubSeq(@, 1, from) \o r.data
                                 \o SubSeq(@, from + length + 1, Len(@))]
    /\ UNCHANGED sessionVars

\* the buffer is encrypted by "enc", in one call or byte by byte, and then
\* decrypted by "dec"
NextRC4 ==
    \/ \E c \in {"enc", "dec"} : init(c)
    \/ \E n \in {1, Len(calc.data) - calc.pos.enc} : process("enc", n)
    \/ \E n \in {1, Len(calc.data) - calc.pos.dec} :
         calc.pos.enc = Len(calc.data) /\ process("dec", n)

SpecRC4 == InitRC4 /\ [][NextRC4]_vars

\* ---------------------------------------------------------------------------
\* auth::SRP engine, widths of the exposed values
\*
\* The implementation files of SRP and BigNum are not part of the sources (only
\* big_num.hpp is); the engine is modelled from the specification (4.1, 4.2)
\* and from the flow the SRP document describes. Numbers are little-endian byte
\* sequences without high zero bytes. The challenges are those of testSRP: g is
\* 2 and every byte of N is 0xFF, so N = 2^(8 * Len(N)) - 1 and
\* g^a mod N = 2^(a mod (8 * Len(N))). SHA1 is a stand-in that keeps the
\* 20-byte width of a digest; the raw session secret S is any number of at
\* most Len(N) bytes.
\* ---------------------------------------------------------------------------

\* stand-in for SHA-1: 20 bytes whatever the input
SHA1(data) ==
    LET h == 31 * Len(data)
               + (IF data = << >> THEN 0 ELSE data[1] + data[Len(data)])
    IN  [i \in 1..20 |-> (h + 7 * i) % 256]

\* BigNum::toArray(littleEndian, minSize) of the number with little-endian
\* bytes num: zero-padded at the high end to at least minSize bytes
toArray(num, littleEndian, minSize) ==
    LET size == IF Len(num) < minSize THEN minSize ELSE Len(num)
        le   == [i \in 1..size |-> IF i <= Len(num) THEN num[i] ELSE 0]
    IN  IF littleEndian THEN le ELSE [i \in 1..size |-> le[size + 1 - i]]

\* a constructed engine and the challenge the server will send: B of 32 bytes,
\* g = 2, salt of 32 bytes and an N of nLen bytes 0xFF
InitSRP ==
    /\ Constructed
    /\ \E nLen \in {1, 16, 32, 33, 256} : \E b \in {1, 66} :
         calc = [fn |-> "srp", stage |-> "new",
                 B |-> [i \in 1..32 |-> b], g |-> << 2 >>,
                 N |-> [i \in 1..nLen |-> 255],
                 salt |-> [i \in 1..32 |-> 17]]

\* SRP::initialize(username, password): the credentials are kept
initialize(username, password) ==
    /\ calc.fn = "srp" /\ calc.stage = "new"
    /\ calc' = [calc EXCEPT !.stage = "initialized"]
                 @@ [username |-> username, password |-> password]
    /\ UNCHANGED sessionVars

\* SRP::feed(B, g, N, salt): draws the private ephemeral a, computes
\* A = g^a mod N, the session secret S, the interleaved key K and the proofs
feed(a, sLen) ==
    /\ calc.fn = "srp" /\ calc.stage = "initialized"
    /\ sLen \in 1..Len(calc.N)
    /\ \E e  \in { a % (8 * Len(calc.N)) } :
       \E A  \in { [i \in 1..(e \div 8 + 1) |->
                      IF i = e \div 8 + 1 THEN 2 ^ (e % 8) ELSE 0] } :
       \E S  \in { toArray([i \in 1..sLen |-> ((17 * i) % 255) + 1],
                            TRUE, 32) } :
       \E S1 \in { SHA1([i \in 1..(Len(S) \div 2) |-> S[2 * i - 1]]) } :
       \E S2 \in { SHA1([i \in 1..(Len(S) \div 2) |-> S[2 * i]]) } :
       \E K  \in { [i \in 1..40 |->
                      IF i % 2 = 1 THEN S1[(i + 1) \div 2]
                                   ELSE S2[i \div 2]] } :
       \E Ab \in { toArray(A, TRUE, 32) } :
       \E HN \in { SHA1(calc.N) } : \E Hg \in { SHA1(calc.g) } :
       \E M1 \in { SHA1([i \in 1..20 |-> XorByte(HN[i], Hg[i])]
                           \o SHA1(calc.username) \o calc.salt \o Ab
                           \o calc.B \o K) } :
         calc' = [calc EXCEPT !.stage = "fed"]
                   @@ [a |-> a, A |-> A, K |-> K, M1 |-> M1,
                       M2 |-> SHA1(Ab \o M1 \o K)]
    /\ UNCHANGED sessionVars

\* SRP::getA(): the public ephemeral as a 32-byte protocol field
getA == toArray(calc.A, TRUE, 32)

\* SRP::getM1(): the client proof
getM1 == calc.M1

\* SRP::getSessionKey(): the interleaved key K
getSessionKey == calc.K

NextSRP ==
    \/ \E u \in { << 84, 69, 83, 84 >>, << 65 >> } : initialize(u, u)
    \/ \E a \in {1, 100, 255, 256, 1000, 2047} :
       \E sLen \in {1, Len(calc.N)} : feed(a, sLen)

SpecSRP == InitSRP /\ [][NextSRP]_vars




(***************************************************************************)
(* Properties of the session state machine                                 *)
(***************************************************************************)

\* C1 (as claimed): over connect, update, requestCharacterList and
\* selectCharacter every change of the phase goes to a later phase of the
\* order or to FAILED, never to an earlier phase
C1_StrictlyForward ==
    [][(state' # state /\ state # "FAILED" /\ lastOp'.name # "disconnect")
         => (state' = "FAILED" \/ PhaseIndex(state') > PhaseIndex(state))]_vars

\* C1 (amended): a change of the phase made by update, requestCharacterList,
\* selectCharacter or the completion of connect goes to a later phase or to
\* FAILED; a call of connect() starts over at CONNECTING from any phase (or
\* goes to FAILED)
C1_ForwardWithinConnection ==
    [][(state' # state /\ lastOp'.name # "disconnect")
         => \/ state' = "FAILED"
            \/ PhaseIndex(state') > PhaseIndex(state)
            \/ lastOp'.name = "connect" /\ pc = "idle"
                  /\ state' = "CONNECTING"]_vars

\* the handshake ran to its end: the world entry was verified
C1_Witness ==
    /\ state = "IN_WORLD"
    /\ lastOp.name = "handlePacket"
    /\ lastOp.pkt.op = "SMSG_LOGIN_VERIFY_WORLD"

\* C2 (as claimed): once the phase is FAILED no inbound message and no
\* operation on the session moves it to another phase
C2_FailedAbsorbing == [][state = "FAILED" => state' = "FAILED"]_vars

\* C2 (amended): once the phase is FAILED no inbound message, update,
\* requestCharacterList or selectCharacter changes it; only disconnect()
\* (to DISCONNECTED) and a new connect() (to CONNECTING) leave FAILED
C2_FailedUntilReset ==
    [][(state = "FAILED" /\ state' # "FAILED")
         => \/ lastOp'.name = "disconnect" /\ state' = "DISCONNECTED"
            \/ lastOp'.name = "connect" /\ state' = "CONNECTING"]_vars

\* a successful auth response was dispatched to a session that is FAILED
C2_Witness ==
    /\ state = "FAILED"
    /\ lastOp.name = "handlePacket"
    /\ lastOp.pkt.op = "SMSG_AUTH_RESPONSE"
    /\ lastOp.pkt.result = "OK"

AuthSessionSent == \E i \in 1..Len(sent) : sent[i].op = "CMSG_AUTH_SESSION"

\* C3: the header cipher is initialised with the session key after
\* CMSG_AUTH_SESSION was sent and before anything else is sent or any
\* inbound message is interpreted; CMSG_AUTH_SESSION itself goes out
\* unencrypted, and AUTH_SENT is never seen without the cipher
C3_CipherAfterAuthSession ==
    /\ state = "AUTH_SENT"
         => socket.exists /\ socket.encrypted /\ socket.cipherKey = sessionKey
    /\ \A i \in 1..Len(sent) :
         IF sent[i].op = "CMSG_AUTH_SESSION"
           THEN i = 1 /\ ~sent[i].enc
           ELSE sent[i].enc
    /\ (socket.exists /\ socket.encrypted) => AuthSessionSent
    /\ (AuthSessionSent /\ pc # "initEncryption")
         => socket.encrypted /\ socket.cipherKey = sessionKey
    /\ pc = "initEncryption"
         => ~socket.encrypted /\ Len(sent) = 1 /\ AuthSessionSent

\* AUTH_SENT right after the credentials went out
C3_Witness ==
    /\ state = "AUTH_SENT"
    /\ socket.encrypted
    /\ Len(sent) = 1
    /\ sent[1].op = "CMSG_AUTH_SESSION"

\* the phase a message type belongs to: the handshake replies each have one
\* phase, the world messages belong to IN_WORLD, the informational ones to
\* every phase from AUTHENTICATED on, an unknown type to none
C4_ValidIn(p, s) ==
    CASE p.op = "SMSG_AUTH_CHALLENGE" -> s = "CONNECTED"
      [] p.op = "SMSG_AUTH_RESPONSE" -> s = "AUTH_SENT"
      [] p.op = "SMSG_CHAR_ENUM" -> s = "CHAR_LIST_REQUESTED"
      [] p.op = "SMSG_LOGIN_VERIFY_WORLD" -> s = "ENTERING_WORLD"
      [] p.op \in {"SMSG_UPDATE_OBJECT", "SMSG_DESTROY_OBJECT",
                   "SMSG_MESSAGECHAT"} -> s = "IN_WORLD"
      [] p.op \in {"SMSG_ACCOUNT_DATA_TIMES", "SMSG_MOTD", "SMSG_PONG"} ->
           /\ s # "FAILED"
           /\ PhaseIndex(s) >= PhaseIndex("AUTHENTICATED")
      [] OTHER -> FALSE

\* the step is the dispatch of one inbound packet
IsDispatch == pc = "dispatch" /\ lastOp'.name = "handlePacket"

\* C4: an inbound message that is not valid in the current phase (a known
\* type of another phase or an unknown type, also while IN_WORLD) is
\* discarded: the phase is unchanged, the failure callback is not invoked
\* and nothing is sent
C4_InvalidInPhaseDiscarded ==
    [][(IsDispatch /\ ~C4_ValidIn(lastOp'.pkt, state))
         => /\ state' = state
            /\ failCalls' = failCalls
            /\ sent' = sent
            /\ fed' = fed
            /\ pc' = "dispatch"]_vars

\* an unknown type was dispatched while IN_WORLD
C4_Witness ==
    /\ state = "IN_WORLD"
    /\ lastOp.name = "handlePacket"
    /\ lastOp.pkt.op = "UNKNOWN"

\* C5: SMSG_PONG and SMSG_MOTD never drive a transition: handling one leaves
\* the phase unchanged (and fails nothing), also when the sequence number
\* of the pong is not that of the last ping or the message does not parse
C5_InformationalNoTransition ==
    [][(IsDispatch /\ lastOp'.pkt.op \in {"SMSG_PONG", "SMSG_MOTD"})
         => /\ state' = state
            /\ failCalls' = failCalls
            /\ pc' = "dispatch"]_vars

\* a pong that parses and is out of sequence was handled while IN_WORLD
C5_Witness ==
    /\ state = "IN_WORLD"
    /\ lastOp.name = "handlePacket"
    /\ lastOp.pkt.op = "SMSG_PONG"
    /\ PongParser(lastOp.pkt)
    /\ lastOp.pkt.n # pingSequence

\* the handshake handlers took exactly a valid challenge and then this
\* auth response on the connection
TookResponse(f, ok) ==
    /\ Len(f) = 2
    /\ f[1].op = "SMSG_AUTH_CHALLENGE" /\ ChallengeIsValid(f[1])
    /\ f[2].op = "SMSG_AUTH_RESPONSE"
    /\ ResponseIsSuccess(f[2]) = ok

\* C6: a session in CONNECTED that is fed a valid challenge and then an
\* auth response OK reaches AUTHENTICATED (on taking the response)
C6_ChallengeThenSuccess ==
    [][(Len(fed) = 1 /\ TookResponse(fed', TRUE))
         => state' = "AUTHENTICATED"]_vars

\* AUTHENTICATED, reached by the challenge and the response
C6_Witness == state = "AUTHENTICATED" /\ TookResponse(fed, TRUE)

\* C7: a session in CONNECTED that is fed a valid challenge and then a
\* non-success auth response goes straight to FAILED with a non-empty
\* reason, is never AUTHENTICATED or READY on that connection and the
\* success callback is not invoked
C7_ChallengeThenFailure ==
    /\ [](TookResponse(fed, FALSE)
            => /\ state = "FAILED"
               /\ pc \in {"dispatch", "idle"}
               /\ onFailure => failReason # "")
    /\ [][(Len(fed) = 1 /\ TookResponse(fed', FALSE))
            => /\ state = "AUTH_SENT" /\ state' = "FAILED"
               /\ pc' = "dispatch"
               /\ successCalls' = successCalls
               /\ onFailure => failCalls' = failCalls + 1]_vars

\* FAILED by the rejection, the reason handed to the callback
C7_Witness ==
    /\ TookResponse(fed, FALSE)
    /\ state = "FAILED"
    /\ failReason = "Authentication failed: FAILED - Authentication failed"

\* C8: each time the session enters FAILED the registered failure callback
\* is invoked exactly once with a non-empty reason, and it is invoked on no
\* other occasion
C8_OneReasonPerFailure ==
    [][/\ (state' = "FAILED" /\ state # "FAILED" /\ onFailure)
            => failCalls' = failCalls + 1 /\ failReason' # ""
       /\ failCalls' # failCalls
            => /\ state' = "FAILED" /\ onFailure
               /\ failCalls' = failCalls + 1 /\ failReason' # ""]_vars

\* the callback got the reason of an unusable world entry
C8_Witness ==
    /\ state = "FAILED"
    /\ failCalls = 1
    /\ failReason = "Invalid world entry data"

\* C9: transport errors end the session in FAILED with a reason: whenever
\* the transport failed to connect or was lost after connecting, the call
\* that met the error leaves the session FAILED, a reason given to the
\* failure callback
C9_TransportErrorFails ==
    (socket.exists /\ ~socket.connected /\ pc = "idle")
      => /\ state = "FAILED"
         /\ onFailure => failReason # ""

\* C10: disconnect() in any phase leaves the session DISCONNECTED without a
\* transport and with it the buffered partial message; from then on, until
\* the next connect(), update() dispatches no message, nothing is sent and
\* the phase stays, and the transport of the next connect() starts with an
\* empty buffer and without a cipher
C10_DisconnectSafe ==
    /\ [](lastOp.name = "disconnect"
            => state = "DISCONNECTED" /\ ~socket.exists /\ pc = "idle")
    /\ [](~socket.exists => pc = "idle")
    /\ [][~socket.exists
            => /\ lastOp'.name # "handlePacket"
               /\ lastOp'.name # "connect" => sent' = sent /\ ~socket'.exists
               /\ state' # state => lastOp'.name \in {"connect", "disconnect"}
               /\ socket'.exists
                    => /\ lastOp'.name = "connect"
                       /\ sent' = << >>
                       /\ socket'.rx = 0 /\ ~socket'.encrypted]_vars

\* update() on a session that was in the world and has been disconnected
C10_Witness ==
    /\ lastOp.name = "update"
    /\ ~socket.exists
    /\ state = "DISCONNECTED"
    /\ pingSequence > 0

IsPing(m) == m.op = "CMSG_PING"

\* the step sends a heartbeat
PingStep == Len(sent') = Len(sent) + 1 /\ IsPing(sent'[Len(sent')])

\* C11: heartbeats are sent only while IN_WORLD, by the update() in which
\* the time accumulated in the world since the last heartbeat reaches the
\* ping interval (the time then starts again at 0), and each carries a
\* sequence number greater than that of every heartbeat before it
C11_Heartbeat ==
    /\ [](\A i, j \in 1..Len(sent) :
            (i < j /\ IsPing(sent[i]) /\ IsPing(sent[j]))
              => sent[i].n < sent[j].n)
    /\ [](\A i \in 1..Len(sent) : IsPing(sent[i]) => sent[i].n <= pingSequence)
    /\ [](timeSinceLastPing >= 0 /\ timeSinceLastPing < PingInterval)
    /\ [][PingStep
            => /\ state = "IN_WORLD" /\ state' = "IN_WORLD"
               /\ lastOp'.name = "update"
               /\ timeSinceLastPing' = 0
               /\ sent'[Len(sent')].n > pingSequence
               /\ pingSequence' = sent'[Len(sent')].n]_vars
    /\ [][(pc = "dispatch" /\ lastOp'.name = "update" /\ ~PingStep)
            => IF state = "IN_WORLD"
                 THEN timeSinceLastPing' > timeSinceLastPing
                 ELSE timeSinceLastPing' = timeSinceLastPing]_vars
    /\ [][pingSequence' # pingSequence => PingStep]_vars

\* two heartbeats went out on one connection
C11_Witness ==
    \E i, j \in 1..Len(sent) :
        i < j /\ IsPing(sent[i]) /\ IsPing(sent[j]) /\ state = "IN_WORLD"

(***************************************************************************)
(* Properties of the world phase                                           *)
(***************************************************************************)

\* the payload of an SMSG_UPDATE_OBJECT is structurally invalid: among the
\* blocks the count announces one is missing, cut short or of an unknown
\* update type
C12_Invalid(d) ==
    \/ d.blockCount > Len(d.blocks)
    \/ \E i \in 1..d.blockCount :
          i <= Len(d.blocks)
            /\ (d.blocks[i].overrun \/ d.blocks[i].updateType \notin UpdateTypes)

DestroyStep ==
    /\ IsDispatch
    /\ state = "IN_WORLD"
    /\ lastOp'.pkt.op = "SMSG_DESTROY_OBJECT"
    /\ lastOp'.pkt.size >= 9

\* C13: a destroy message for an identifier that is not in the entity
\* table leaves the table unchanged and does not fail the session; one for
\* a known identifier removes exactly that entity
C13_Destroy ==
    [][DestroyStep
         => /\ state' = state
            /\ failCalls' = failCalls
            /\ IF hasEntity(entities, lastOp'.pkt.data.guid)
                 THEN /\ DOMAIN entities' =
                           DOMAIN entities \ {lastOp'.pkt.data.guid}
                      /\ \A g \in DOMAIN entities' : entities'[g] = entities[g]
                 ELSE entities' = entities]_vars

\* a destroy message for a guid that was never created met a table of two
C13_Witness ==
    /\ lastOp.name = "handlePacket"
    /\ lastOp.pkt.op = "SMSG_DESTROY_OBJECT"
    /\ lastOp.pkt.size >= 9
    /\ lastOp.pkt.data.guid = 3
    /\ DOMAIN entities = {1, 2}
    /\ state = "IN_WORLD"

(***************************************************************************)
(* Properties of the codecs                                                *)
(***************************************************************************)

RECURSIVE PopCount(_, _)
PopCount(x, i) == IF i = 8 THEN 0 ELSE Bit(x, i) + PopCount(x, i + 1)

\* C14: readPackedGuid applied to the reference encoding of a guid returns
\* that guid and consumes 1 + (number of set bits of the mask byte) bytes;
\* a zero mask yields guid 0
C14_PackedGuidRoundTrip ==
    (calc.fn = "packedGuid" /\ calc.stage = "decoded")
      => /\ calc.result.guid = calc.id
         /\ calc.result.pos - 1 = 1 + PopCount(calc.buf[1], 0)
         /\ calc.buf[1] = 0 => calc.result.guid = ZeroGuid

\* 0x1122334455667788 was decoded from its nine bytes, a byte following
C14_Witness ==
    /\ calc.fn = "packedGuid" /\ calc.stage = "decoded"
    /\ calc.id = SampleGuid
    /\ calc.result.guid = SampleGuid
    /\ calc.result.pos = 10
    /\ Len(calc.buf) = 10

\* the global indices of the set bits of an update mask from index j - 1 on,
\* in the order mask word, then least significant bit first
SetBitIndices(updateMask, j) ==
    LET set == { i \in (j - 1)..(Len(updateMask) * WordBits - 1) :
                   MaskBit(updateMask[(i \div WordBits) + 1],
                           i % WordBits) = 1 }
    IN  [k \in 1..Cardinality(set) |->
           CHOOSE i \in set : Cardinality({ h \in set : h < i }) = k - 1]

\* C15: parseUpdateFields reads one 32-bit value for every set bit of the
\* mask words, in the order mask word then least significant bit first,
\* and records the k-th value read under the global index
\* wordIndex * 32 + bitIndex of the k-th set bit; the mapping holds exactly
\* the indices of the set bits
C15_BitmaskFields ==
    (calc.fn = "fields" /\ calc.stage = "parsed")
      => LET idx == SetBitIndices(calc.updateMask, 1)
             values == 1 + 1 + 4 * Len(calc.updateMask)
         IN  /\ DOMAIN calc.result.fields = { idx[k] : k \in 1..Len(idx) }
             /\ \A k \in 1..Len(idx) :
                  calc.result.fields[idx[k]] =
                    SubSeq(calc.buf, values + 4 * (k - 1), values + 4 * k - 1)
             /\ calc.result.pos = values + 4 * Len(idx)

\* the mask {0b101}: exactly the indices 0 and 2, in the order read
C15_Witness ==
    /\ calc.fn = "fields" /\ calc.stage = "parsed"
    /\ calc.updateMask = << << 5, 0, 0, 0 >> >>
    /\ DOMAIN calc.result.fields = {0, 2}
    /\ calc.result.fields[0] = FieldValue(1)
    /\ calc.result.fields[2] = FieldValue(2)


\* ---------------------------------------------------------------------------
\* Stream framer properties
\* ---------------------------------------------------------------------------

\* socket f has received the whole stream and returned from its last update
FramerDone(f) ==
    calc.fn = "framer" /\ calc[f].pc = "idle" /\ calc[f].fed = Len(Stream)

\* the loop condition of tryParsePackets(): a message whose size is known and
\* whose bytes are all buffered sits at the head of the buffer
CompleteAtHead(buf) ==
    /\ Len(buf) >= 1
    /\ getExpectedPacketSize(buf) # 0
    /\ Len(buf) >= getExpectedPacketSize(buf)

\* C16: chunk-boundary independence: once both sockets have received the whole
\* stream, the socket fed one byte per update has delivered exactly the
\* messages (opcodes, payloads, order) of the socket fed in a single chunk
C16_ChunkBoundaryIndependence ==
    (FramerDone("whole") /\ FramerDone("bytes"))
        => calc.bytes.delivered = calc.whole.delivered

\* a stream with a variable-length LOGON_CHALLENGE among at least two messages
\* and bytes left over has been fed both ways
C16_Witness ==
    /\ FramerDone("whole") /\ FramerDone("bytes")
    /\ calc.bytes.updates = Len(Stream) /\ calc.whole.updates = 1
    /\ Len(calc.bytes.delivered) >= 2
    /\ \E i \in 1..Len(calc.bytes.delivered) :
         Len(calc.bytes.delivered[i].data) = 89
    /\ calc.bytes.receiveBuffer # << >>
    /\ calc.bytes.delivered = calc.whole.delivered

C19_RC4KnownAnswer ==
    calc.fn = "rc4" =>
      /\ (/\ calc.key = << 75, 101, 121 >>
          /\ calc.plain = << 80, 108, 97, 105, 110, 116, 101, 120, 116 >>
          /\ calc.pos.enc = Len(calc.plain) /\ calc.pos.dec = 0)
            => calc.data = << 187, 243, 22, 232, 217, 64, 175, 10, 211 >>
      /\ (calc.pos.enc = Len(calc.plain) /\ calc.pos.dec = Len(calc.plain))
            => calc.data = calc.plain

\* "Plaintext" has been encrypted under "Key" and decrypted again
C19_Witness ==
    /\ calc.fn = "rc4"
    /\ calc.key = << 75, 101, 121 >>
    /\ calc.plain = << 80, 108, 97, 105, 110, 116, 101, 120, 116 >>
    /\ calc.inited.enc /\ calc.inited.dec
    /\ calc.pos.enc = 9 /\ calc.pos.dec = 9
    /\ calc.data = calc.plain



\* ---------------------------------------------------------------------------
\* SRP properties
\* ---------------------------------------------------------------------------

\* C20: after every accepted server challenge the exposed values have fixed
\* widths: getA() is exactly 32 bytes, getM1() exactly 20 bytes and
\* getSessionKey() exactly 40 bytes, whatever the magnitude of the numbers and
\* the byte length of N
C20_FixedWidths ==
    (calc.fn = "srp" /\ calc.stage = "fed")
      => /\ Len(getA) = 32
         /\ Len(getM1) = 20
         /\ Len(getSessionKey) = 40



\* ---------------------------------------------------------------------------
\* Session properties, continued
\* ---------------------------------------------------------------------------

\* C21: connect() requires a session key of exactly 40 bytes: a connect() that
\* goes on to the transport has stored a 40-byte key, and a connect() that
\* returns at once ends in FAILED, the failure callback given "Invalid session
\* key", with the transport, the stored key, account name, build and seed, and
\* everything sent left as they were
C21_ConnectNeedsFortyByteKey ==
    [][(pc = "idle" /\ lastOp'.name = "connect")
         => IF pc' = "connect"
              THEN sessionKey'.len = SessionKeySize
              ELSE /\ state' = "FAILED"
                   /\ socket' = socket
                   /\ credVars' = credVars
                   /\ sent' = sent
                   /\ onFailure => /\ failCalls' = failCalls + 1
                                   /\ failReason' = "Invalid session key"]_vars

\* a connected session was given a key of the wrong size: FAILED, the old
\* transport and the old 40-byte key still in place
C21_Witness ==
    /\ state = "FAILED" /\ lastOp.name = "connect" /\ pc = "idle"
    /\ failReason = "Invalid session key"
    /\ socket.exists /\ socket.connected
    /\ sessionKey.len = SessionKeySize

\* C22: requestCharacterList() takes effect only in READY or AUTHENTICATED,
\* where it sends exactly one CMSG_CHAR_ENUM and moves to
\* CHAR_LIST_REQUESTED; selectCharacter() takes effect only in
\* CHAR_LIST_RECEIVED, where it sends exactly one CMSG_PLAYER_LOGIN and moves
\* to ENTERING_WORLD; in every other phase they send nothing and leave the
\* phase as it is
C22_RosterCallsGuarded ==
    [][/\ lastOp'.name = "requestCharacterList"
          => IF state \in {"READY", "AUTHENTICATED"}
               THEN /\ Len(sent') = Len(sent) + 1
                    /\ SubSeq(sent', 1, Len(sent)) = sent
                    /\ sent'[Len(sent')].op = "CMSG_CHAR_ENUM"
                    /\ state' = "CHAR_LIST_REQUESTED"
               ELSE sent' = sent /\ state' = state
       /\ lastOp'.name = "selectCharacter"
          => IF state = "CHAR_LIST_RECEIVED"
               THEN /\ Len(sent') = Len(sent) + 1
                    /\ SubSeq(sent', 1, Len(sent)) = sent
                    /\ sent'[Len(sent')].op = "CMSG_PLAYER_LOGIN"
                    /\ state' = "ENTERING_WORLD"
               ELSE sent' = sent /\ state' = state]_vars

\* the roster was requested in READY and a character selected from the
\* received roster, and a later selectCharacter() was ignored
C22_Witness ==
    /\ lastOp.name = "selectCharacter" /\ state = "IN_WORLD"
    /\ \E i, j \in 1..Len(sent) :
         /\ i < j
         /\ sent[i].op = "CMSG_CHAR_ENUM"
         /\ sent[j].op = "CMSG_PLAYER_LOGIN"
         /\ \A k \in 1..Len(sent) :
              sent[k].op = "CMSG_PLAYER_LOGIN" => k = j

(***************************************************************************)
(* Properties of the entity table                                          *)
(***************************************************************************)

\* the step dispatches an SMSG_UPDATE_OBJECT in the world that parses
UpdateStep ==
    /\ IsDispatch
    /\ state = "IN_WORLD"
    /\ lastOp'.pkt.op = "SMSG_UPDATE_OBJECT"
    /\ lastOp'.pkt.size >= 1
    /\ ~C12_Invalid(lastOp'.pkt.data)

\* the guids of the out-of-range list of a payload
OutOfRangeOf(d) ==
    { d.outOfRangeGuids[i] : i \in 1..Len(d.outOfRangeGuids) }

\* the guids of the create blocks among the first blockCount blocks
CreatedBy(d) ==
    { d.blocks[i].guid : i \in { j \in 1..d.blockCount :
          d.blocks[j].updateType \in {"CREATE_OBJECT", "CREATE_OBJECT2"} } }

\* C23: the out-of-range list of an SMSG_UPDATE_OBJECT is processed before
\* its blocks: a guid that is in the list and in a create block of the same
\* message is in the entity table afterwards, a listed guid that no block
\* creates is not, and the blocks for it have had nothing to act on
C23_OutOfRangeFirst ==
    [][UpdateStep
         => /\ \A g \in OutOfRangeOf(lastOp'.pkt.data) :
                  hasEntity(entities', g)
                    <=> g \in CreatedBy(lastOp'.pkt.data)
            /\ \A g \in CreatedBy(lastOp'.pkt.data) : hasEntity(entities', g)
            /\ state' = state]_vars

\* a message listed guids 1 and 2 as out of range, created 1 again and
\* moved 2: only 1 is in the table
C23_Witness ==
    /\ lastOp.name = "handlePacket"
    /\ lastOp.pkt.op = "SMSG_UPDATE_OBJECT"
    /\ ~C12_Invalid(lastOp.pkt.data)
    /\ OutOfRangeOf(lastOp.pkt.data) = {1, 2}
    /\ CreatedBy(lastOp.pkt.data) = {1}
    /\ DOMAIN entities = {1}
    /\ state = "IN_WORLD"
    /\ pc = "dispatch"

\* the create blocks of a payload that no later block of it names again
FinalCreates(d) ==
    { i \in 1..d.blockCount :
        /\ d.blocks[i].updateType \in {"CREATE_OBJECT", "CREATE_OBJECT2"}
        /\ \A j \in (i + 1)..d.blockCount :
              d.blocks[j].guid # d.blocks[i].guid }

\* C24: a create block makes or replaces the entity of its guid: the table
\* then holds for the guid one entity of the block's object type, with the
\* block's position and exactly the block's fields, whatever an earlier
\* entity of that guid held
C24_CreateReplaces ==
    [][UpdateStep
         => \A i \in FinalCreates(lastOp'.pkt.data) :
              LET b == lastOp'.pkt.data.blocks[i] IN
                /\ hasEntity(entities', b.guid)
                /\ entities'[b.guid].type = b.objectType
                /\ entities'[b.guid].pos = b.pos
                /\ entities'[b.guid].fields = b.fields]_vars

\* guid 1, once a unit with field 0, was created again as a player with
\* field 2 only, next to the entity of guid 2
C24_Witness ==
    /\ lastOp.name = "handlePacket"
    /\ lastOp.pkt.op = "SMSG_UPDATE_OBJECT"
    /\ ~C12_Invalid(lastOp.pkt.data)
    /\ FinalCreates(lastOp.pkt.data) = {1}
    /\ lastOp.pkt.data.blocks[1].objectType = "PLAYER"
    /\ lastOp.pkt.data.blocks[1].guid = 1
    /\ DOMAIN entities = {1, 2}
    /\ entities[1] = [type |-> "PLAYER", pos |-> 4, fields |-> Fields2]
    /\ state = "IN_WORLD"
    /\ pc = "dispatch"

\* the blocks of a payload that name a guid
BlocksOf(d, g) == { i \in 1..d.blockCount : d.blocks[i].guid = g }

\* the guids a payload names only in VALUES blocks
ValuesOnly(d) ==
    { g \in { d.blocks[i].guid : i \in 1..d.blockCount } \ OutOfRangeOf(d) :
        \A i \in BlocksOf(d, g) : d.blocks[i].updateType = "VALUES" }

\* the field indices the blocks of a payload carry for a guid
Carried(d, g) == UNION { DOMAIN d.blocks[i].fields : i \in BlocksOf(d, g) }

\* the value the last block that carries field k for guid g gives it
LastValue(d, g, k) ==
    d.blocks[CHOOSE i \in BlocksOf(d, g) :
               /\ k \in DOMAIN d.blocks[i].fields
               /\ \A j \in BlocksOf(d, g) :
                     k \in DOMAIN d.blocks[j].fields => j <= i].fields[k]

\* the guids a payload names, in its list or in a block
NamedBy(d) ==
    OutOfRangeOf(d) \cup { d.blocks[i].guid : i \in 1..d.blockCount }

\* C25: a VALUES block for a known guid overwrites the fields it carries
\* and leaves the other fields, the type and the position of the entity and
\* every other entity as they were; for an unknown guid it makes no entity
\* and changes nothing, the session goes on and the blocks after it are
\* applied
C25_ValuesUpdate ==
    [][UpdateStep
         => /\ \A g \in ValuesOnly(lastOp'.pkt.data) :
                  IF hasEntity(entities, g)
                    THEN /\ hasEntity(entities', g)
                         /\ entities'[g].type = entities[g].type
                         /\ entities'[g].pos = entities[g].pos
                         /\ DOMAIN entities'[g].fields =
                               DOMAIN entities[g].fields
                                 \cup Carried(lastOp'.pkt.data, g)
                         /\ \A k \in DOMAIN entities'[g].fields :
                               entities'[g].fields[k] =
                                 IF k \in Carried(lastOp'.pkt.data, g)
                                   THEN LastValue(lastOp'.pkt.data, g, k)
                                   ELSE entities[g].fields[k]
                    ELSE ~hasEntity(entities', g)
            /\ \A g \in Guids \cup DOMAIN entities :
                  g \notin NamedBy(lastOp'.pkt.data)
                    => /\ hasEntity(entities', g) <=> hasEntity(entities, g)
                       /\ hasEntity(entities, g) => entities'[g] = entities[g]
            /\ \A i \in 1..lastOp'.pkt.data.blockCount :
                  LET b == lastOp'.pkt.data.blocks[i] IN
                    (/\ b.updateType = "MOVEMENT"
                     /\ BlocksOf(lastOp'.pkt.data, b.guid) = {i}
                     /\ b.guid \notin OutOfRangeOf(lastOp'.pkt.data)
                     /\ hasEntity(entities, b.guid))
                      => entities'[b.guid].pos = b.pos
            /\ state' = state
            /\ failCalls' = failCalls
            /\ pc' = "dispatch"]_vars

\* a message with a VALUES block for guid 1 and a MOVEMENT block for guid 2
\* met a table that holds only guid 2: no entity for 1, and 2 has moved
C25_Witness ==
    /\ lastOp.name = "handlePacket"
    /\ lastOp.pkt.op = "SMSG_UPDATE_OBJECT"
    /\ ~C12_Invalid(lastOp.pkt.data)
    /\ lastOp.pkt.data.blockCount = 2
    /\ ValuesOnly(lastOp.pkt.data) = {1}
    /\ lastOp.pkt.data.blocks[2].updateType = "MOVEMENT"
    /\ DOMAIN entities = {2}
    /\ entities[2].pos = lastOp.pkt.data.blocks[2].pos
    /\ state = "IN_WORLD"
    /\ pc = "dispatch"

(***************************************************************************)
(* Properties of the framer, continued                                     *)
(***************************************************************************)

\* what sits at the head of the receive buffer of socket f is not a whole
\* message of the stream: the next message the server sent is only partly
\* buffered, or all messages are delivered and the head is the tail of the
\* stream (a partial message, a REALM_LIST response or an unknown opcode)
HeadIncomplete(f) ==
    IF Len(calc[f].delivered) < Len(calc.msgs)
      THEN Len(calc[f].receiveBuffer)
             < Len(calc.msgs[Len(calc[f].delivered) + 1])
      ELSE TRUE

\* C26: the framer consumes nothing without a complete frame: a parse pass
\* that finds an incomplete frame (its length fields partly buffered
\* included) or an unrecognized opcode at the head of the receive buffer
\* delivers nothing and leaves the buffer as it is, and the next read is
\* appended after the bytes that were kept
C26_NoConsumeWithoutFrame ==
    [][calc.fn = "framer"
         => \A f \in {"whole", "bytes"} :
              /\ (calc[f].pc = "parse" /\ calc'[f] # calc[f]
                     /\ HeadIncomplete(f))
                   => /\ calc'[f].delivered = calc[f].delivered
                      /\ calc'[f].receiveBuffer = calc[f].receiveBuffer
                      /\ calc'[f].pc = "idle"
              /\ (calc[f].pc = "idle" /\ calc'[f].pc = "parse")
                   => calc'[f].receiveBuffer =
                        calc[f].receiveBuffer
                          \o SubSeq(Stream, calc[f].fed + 1, calc'[f].fed)]_vars

\* fed byte by byte, the socket holds the first 37 bytes of a successful
\* LOGON_CHALLENGE (the length of g is buffered, the length of N is not)
\* after 37 passes that delivered nothing
C26_Witness ==
    /\ calc.fn = "framer"
    /\ calc.bytes.pc = "idle"
    /\ calc.bytes.updates = 37
    /\ calc.bytes.delivered = << >>
    /\ Len(calc.bytes.receiveBuffer) = 37
    /\ calc.bytes.receiveBuffer = SubSeq(Stream, 1, 37)
    /\ calc.bytes.receiveBuffer[1] = 0
    /\ calc.bytes.receiveBuffer[3] = 0
    /\ Len(calc.msgs) >= 1
    /\ Len(calc.msgs[1]) = 89

(***************************************************************************)
(* Session properties: the cipher                                          *)
(***************************************************************************)

\* the step is the call of socket->initEncryption
InitEncryptionStep == pc = "initEncryption" /\ pc' = "authSent"

\* the challenges the session has taken since the last connect()
ChallengesTaken ==
    Cardinality({ i \in 1..Len(fed) : fed[i].op = "SMSG_AUTH_CHALLENGE" })

\* C27: header encryption is initialized at most once per connection:
\* initEncryption is called only on a socket that is not encrypted yet, on
\* the way from CONNECTED through the one challenge taken since connect()
\* to AUTH_SENT; nothing else sets up or changes the cipher of a socket, and
\* an SMSG_AUTH_CHALLENGE in any other phase leaves the socket alone
C27_EncryptionOnce ==
    [][/\ InitEncryptionStep
           => /\ ~socket.encrypted
              /\ socket'.encrypted
              /\ state = "CHALLENGE_RECEIVED"
              /\ ChallengesTaken = 1
              /\ fed[Len(fed)].op = "SMSG_AUTH_CHALLENGE"
       /\ pc = "authSent" => state' = "AUTH_SENT"
       /\ (socket'.exists /\ socket'.encrypted
             /\ (\/ ~socket.exists
                 \/ ~socket.encrypted
                 \/ socket'.cipherKey # socket.cipherKey))
           => InitEncryptionStep
       /\ (IsDispatch /\ lastOp'.pkt.op = "SMSG_AUTH_CHALLENGE"
             /\ state # "CONNECTED")
           => /\ socket' = socket
              /\ sent' = sent
              /\ fed' = fed
              /\ pc' = "dispatch"]_vars

\* a second, well-formed SMSG_AUTH_CHALLENGE arrived in AUTH_SENT: one
\* challenge taken, one CMSG_AUTH_SESSION sent, the cipher as it was set up
C27_Witness ==
    /\ lastOp.name = "handlePacket"
    /\ lastOp.pkt.op = "SMSG_AUTH_CHALLENGE"
    /\ AuthChallengeParser(lastOp.pkt) /\ ChallengeIsValid(lastOp.pkt)
    /\ state = "AUTH_SENT"
    /\ pc = "dispatch"
    /\ ChallengesTaken = 1
    /\ socket.encrypted /\ socket.cipherKey = sessionKey
    /\ Len(sent) = 1

(***************************************************************************)
(* Properties of targeting                                                 *)
(***************************************************************************)

\* C28: when a call of update() returns, the target is none or the guid of
\* an entity of the entity table
C28_TargetValidAfterUpdate ==
    [][(lastOp'.name = "update" /\ pc' = "idle")
         => \/ targetGuid' = 0
            \/ hasEntity(entities', targetGuid')]_vars

\* the guids of the UNIT and PLAYER entities of a table
Targetable(ents) ==
    { g \in DOMAIN ents : ents[g].type \in {"UNIT", "PLAYER"} }

\* list names every guid of the set T exactly once
EachOnce(list, T) ==
    /\ Len(list) = Cardinality(T)
    /\ { list[i] : i \in 1..Len(list) } = T

\* no entity of the list is nearer to the player than one before it
NearestFirst(list, ents, player) ==
    \A i \in 1..Len(list) : \A j \in i..Len(list) :
        (IF ents[list[i]].pos >= player
           THEN ents[list[i]].pos - player ELSE player - ents[list[i]].pos)
          <= (IF ents[list[j]].pos >= player
                THEN ents[list[j]].pos - player
                ELSE player - ents[list[j]].pos)

Arrivals(first, last) == [i \in 1..(last - first + 1) |-> first + i - 1]

\* C29: the chat history holds at most maxChatHistory (100) messages: after
\* the first n messages, received or local, have arrived it holds the last
\* min(n, 100) of them in the order of arrival (each message over the limit
\* pushes out exactly the oldest); a message that does not parse adds
\* nothing; getChatHistory(n) returns the last n messages in order and the
\* whole history when n is 0 or at least its size, and changes nothing
C29_ChatHistoryBounded ==
    [][/\ Len(chatHistory') <= MaxChatHistory
       /\ (lastOp'.name = "addLocalChatMessage"
             \/ (IsDispatch /\ lastOp'.pkt.op = "SMSG_MESSAGECHAT"
                   /\ lastOp'.pkt.size >= 15))
           => LET n == IF lastOp'.name = "addLocalChatMessage"
                         THEN NextChatNumber ELSE lastOp'.pkt.data
              IN  /\ n = NextChatNumber
                  /\ chatHistory' =
                        Arrivals(IF n > MaxChatHistory
                                   THEN n - MaxChatHistory + 1 ELSE 1, n)
                  /\ Len(chatHistory) = MaxChatHistory
                        => chatHistory' = Tail(chatHistory) \o << n >>
       /\ (IsDispatch /\ lastOp'.pkt.op = "SMSG_MESSAGECHAT"
             /\ lastOp'.pkt.size < 15)
           => chatHistory' = chatHistory
       /\ lastOp'.name = "getChatHistory"
           => /\ chatHistory' = chatHistory
              /\ LET L == Len(chatHistory)
                     k == IF calc'.maxMessages = 0 \/ calc'.maxMessages >= L
                            THEN L ELSE calc'.maxMessages
                 IN  calc'.result = [i \in 1..k |-> chatHistory[L - k + i]]]_vars

\* 102 messages have arrived, the first two are gone, and getChatHistory(2)
\* has returned the last two
C29_Witness ==
    /\ Len(chatHistory) = MaxChatHistory
    /\ chatHistory[1] = 3
    /\ chatHistory[MaxChatHistory] = MaxChatHistory + 2
    /\ lastOp.name = "getChatHistory"
    /\ calc.fn = "getChatHistory"
    /\ calc.maxMessages = 2
    /\ calc.result = << MaxChatHistory + 1, MaxChatHistory + 2 >>

====
